---- MODULE Spec2Model ----
(***************************************************************************)
(* A model of the cooking-game kernel: the action gateway                  *)
(* (src/src/robot_controller.py, class RobotController), the match driver  *)
(* (src/src/game.py, class Game) and the world-state store they call       *)
(* (game_state.py, map.py, tiles.py, item.py: not part of the sources at   *)
(* hand, modelled from the written specification).                          *)
(*                                                                         *)
(* The gateway's handlers are written as functions from a world record to  *)
(* a result [s |-> world after the call, ret |-> the boolean returned];    *)
(* an action of the state machine applies one whole handler.               *)
(***************************************************************************)
EXTENDS Integers, Sequences, FiniteSets, TLC

VARIABLES
    turn,            \* GameState.turn
    bots,            \* GameState.bots: bot_id -> [team, map_team, x, y, holding]
    occupancy,       \* GameState.occupancy: map -> cell -> bot_id or NoBot
    tiles,           \* the two maps' tiles: map -> cell -> tile record
    team_money,      \* GameState.team_money
    orders,          \* GameState.orders: team -> sequence of orders
    switched,        \* GameState.switched
    last_seen_turn,  \* RobotController.__last_seen_turn, per gateway
    moves_left,      \* RobotController.__moves_left, per gateway
    actions_left,    \* RobotController.__actions_left, per gateway
    turn_limit,      \* Game.turn_limit
    failed_init,     \* the teams with red_failed_init / blue_failed_init set
    next_order_id,   \* GameState.next_order_id
    phase,           \* where Game.run_game stands in the turn
    abandoned,       \* the teams whose worker thread call_player gave up on
    failed,          \* the teams whose call_player returned False this turn
    replay,          \* len(Game.replay): the snapshots record_turn has taken
    replay_winner,   \* the winner export_replay has written
    result,          \* what run_game has returned
    inflight,        \* the move an abandoned worker has validated, not applied
    moved,           \* history: the bots a move has returned true for this turn
    acted,           \* history: the bots an action was asked of this turn
    ticks_in_pan,    \* history: map -> cell -> the ticks raw food has cooked there
    last             \* the gateway call just made and what it returned

vars == <<turn, bots, occupancy, tiles, team_money, orders, switched,
          last_seen_turn, moves_left, actions_left, turn_limit, failed_init, next_order_id, phase,
          abandoned, failed, replay, replay_winner, result, inflight, moved,
          acted, ticks_in_pan, last>>

(***************************************************************************)
(* Bounds of the model                                                     *)
(***************************************************************************)
\* the number of turns run_game plays (its turn_limit)
MaxTurn == 4

\* the same for a match played in the stocked kitchen
KitchenTurns == 2

\* the same for a match played at the cooker: a pickup, a start_cook and
\* BURN_PROGRESS ticks fit in
CookTurns == 42

\* the number of turns played on from a state in mid-game
BoxTurns == 1

\* the same for a match at the cooker
StoveTurns == 2

\* the turn limit of a match whose setup is drawn
SetupTurns == 2

\* the number of turns played on from a state in mid-game at the box by an
\* agent that plates
PlateTurns == 3

\* the turn limit of a match whose agents ask before they call
AskTurns == 2

\* the turn limit of a match whose agents may never return
MatchTurns == 3

\* the turn limit of a match whose agents switch maps
VisitTurns == 2

\* the turn limit of a match whose agent reads the world
ObserveTurns == 2

(***************************************************************************)
(* game_constants.py                                                       *)
(***************************************************************************)
Teams == {"RED", "BLUE"}

MONEY_PER_TURN == 1
COOK_PROGRESS == 20
BURN_PROGRESS == 40
PLATE_WASH_PROGRESS == 2

FoodNames == {"EGG", "ONIONS", "MEAT", "NOODLES", "SAUCE"}

\* FoodType: food_name -> (can_chop, can_cook, buy_cost)
FoodType ==
    [n \in FoodNames |->
        CASE n = "EGG"     -> [can_chop |-> FALSE, can_cook |-> TRUE,  buy_cost |-> 20]
          [] n = "ONIONS"  -> [can_chop |-> TRUE,  can_cook |-> FALSE, buy_cost |-> 30]
          [] n = "MEAT"    -> [can_chop |-> TRUE,  can_cook |-> TRUE,  buy_cost |-> 80]
          [] n = "NOODLES" -> [can_chop |-> FALSE, can_cook |-> FALSE, buy_cost |-> 40]
          [] n = "SAUCE"   -> [can_chop |-> FALSE, can_cook |-> FALSE, buy_cost |-> 10]]

ShopItemNames == {"PLATE", "PAN"}

\* ShopCosts: item_name -> buy_cost
ShopCosts ==
    [n \in ShopItemNames |-> IF n = "PLATE" THEN 2 ELSE 4]

\* TileType.is_walkable
IsWalkableKind(kind) == kind \in {"FLOOR", "SUBMIT"}

(***************************************************************************)
(* Items (item.py): Food, Plate, Pan; NoItem stands for None               *)
(***************************************************************************)
NoItem == [type |-> "None"]

Food(name, chopped, cooked_stage) ==
    [type |-> "Food", food_name |-> name, chopped |-> chopped,
     cooked_stage |-> cooked_stage]

Plate(food, dirty) == [type |-> "Plate", food |-> food, dirty |-> dirty]

Pan(food) == [type |-> "Pan", food |-> food]

IsFood(it) == it.type = "Food"
IsPlate(it) == it.type = "Plate"
IsPan(it) == it.type = "Pan"

(***************************************************************************)
(* The maps handed over by the map loader                                  *)
(***************************************************************************)
\* a layout gives the kind of the tile at (x, y) as layout[y + 1][x + 1]
KitchenLayout ==
    << <<"SHOP",    "TRASH", "COUNTER",   "WALL">>,
       <<"COUNTER", "FLOOR", "SUBMIT",    "SINK">>,
       <<"COOKER",  "BOX",   "SINKTABLE", "WALL">> >>

RoomLayout ==
    << <<"WALL",    "FLOOR", "WALL",      "WALL">>,
       <<"WALL",    "FLOOR", "SUBMIT",    "WALL">>,
       <<"WALL",    "WALL",  "WALL",      "WALL">> >>

Height == Len(KitchenLayout)
Width == Len(KitchenLayout[1])
Cells == (0 .. Width - 1) \X (0 .. Height - 1)

KindAt(layout, c) == layout[c[2] + 1][c[1] + 1]

\* Map.in_bounds
in_bounds(x, y) == x >= 0 /\ x < Width /\ y >= 0 /\ y < Height

\* the spawn cell of a map's own team
SpawnCell == <<1, 1>>

\* the menu of the shop tiles (Shop.shop_items)
ShopMenu == {"MEAT", "SAUCE", "PLATE", "PAN"}

\* what the agents ask buy() for; "FORK" is on no menu, and is neither a
\* FoodType nor a ShopCosts
Buyables == {"SAUCE", "PLATE", "FORK"}

\* the switch window of the map file (Game.__init__ copies it into the store)
SwitchTurn == 2
SwitchDuration == 2

\* a tile as its class constructs it (tiles.py): only Counter, Box and Cooker
\* have an item slot
EmptyTile(kind) ==
    IF kind = "COUNTER" THEN [kind |-> kind, item |-> NoItem]
    ELSE IF kind = "BOX" THEN [kind |-> kind, item |-> NoItem, count |-> 0]
    ELSE IF kind = "COOKER"
    THEN [kind |-> kind, item |-> NoItem, cook_progress |-> 0]
    ELSE IF kind = "SINK"
    THEN [kind |-> kind, num_dirty_plates |-> 0, using |-> FALSE,
          curr_dirty_plate_progress |-> 0]
    ELSE IF kind = "SINKTABLE" THEN [kind |-> kind, num_clean_plates |-> 0]
    ELSE [kind |-> kind]

\* hasattr(tile, "item")
HasItemSlot(tile) == tile.kind \in {"COUNTER", "BOX", "COOKER"}

\* the kitchen as the loader stocks it: a plate of onions and meat on the first counter,
\* meat on the second and in the box, a pan on the cooker, a clean plate on
\* the sink table and a dirty one in the sink
StockedKitchen ==
    [c \in Cells |->
        LET k == KindAt(KitchenLayout, c) IN
        IF k = "BOX"
        THEN [EmptyTile(k) EXCEPT !.item = Food("MEAT", FALSE, 0), !.count = 2]
        ELSE IF k = "COUNTER" /\ c = <<0, 1>>
        THEN [EmptyTile(k) EXCEPT
                 !.item = Plate(<<Food("ONIONS", FALSE, 0),
                                  Food("MEAT", FALSE, 0)>>, FALSE)]
        ELSE IF k = "COUNTER"
        THEN [EmptyTile(k) EXCEPT !.item = Food("MEAT", FALSE, 0)]
        ELSE IF k = "COOKER"
        THEN [EmptyTile(k) EXCEPT !.item = Pan(NoItem)]
        ELSE IF k = "SINKTABLE"
        THEN [EmptyTile(k) EXCEPT !.num_clean_plates = 1]
        ELSE IF k = "SINK"
        THEN [EmptyTile(k) EXCEPT !.num_dirty_plates = 1]
        ELSE EmptyTile(k)]

\* the kitchen stocked for cooking: raw meat in the box and a pan on the
\* cooker
CookKitchen ==
    [c \in Cells |->
        LET k == KindAt(KitchenLayout, c) IN
        IF k = "BOX"
        THEN [EmptyTile(k) EXCEPT !.item = Food("MEAT", FALSE, 0), !.count = 1]
        ELSE IF k = "COOKER"
        THEN [EmptyTile(k) EXCEPT !.item = Pan(NoItem)]
        ELSE EmptyTile(k)]

\* a room without kitchen furniture
Room == [c \in Cells |-> EmptyTile(KindAt(RoomLayout, c))]

(***************************************************************************)
(* Orders (the loader's order lists); -1 stands for None                   *)
(***************************************************************************)
None == -1

Order(id, required, created, expires, reward, penalty) ==
    [order_id |-> id, required |-> required, created_turn |-> created,
     expires_turn |-> expires, reward |-> reward, penalty |-> penalty,
     claimed_by |-> None, completed_turn |-> None]

InitOrders ==
    [t \in Teams |->
        IF t = "BLUE"
        THEN << Order(1, <<"MEAT", "ONIONS">>, 0, 50, 10, 3),
                Order(2, <<"ONIONS", "MEAT">>, 0, 2, 7, 1),
                Order(3, <<"ONIONS", "MEAT">>, 1, 60, 8, 2) >>
        ELSE << Order(4, <<"MEAT">>, 0, 50, 5, 1) >>]

\* the order lists of the kitchen as the loader may number them: every
\* order has an id of its own
LoadedOrders ==
    {[t \in Teams |->
        [i \in 1 .. Len(InitOrders[t]) |->
            [InitOrders[t][i] EXCEPT !.order_id = n[InitOrders[t][i].order_id]]]] :
        n \in {f \in [1 .. 4 -> 1 .. 4] : \A i, j \in 1 .. 4 : f[i] = f[j] => i = j}}

\* Order.is_active
is_active(o, t) ==
    o.created_turn <= t /\ t < o.expires_turn /\ o.completed_turn = None

(***************************************************************************)
(* Bots                                                                    *)
(***************************************************************************)
\* Game.__init__ adds the red bots, then the blue bots
BotIds == {0, 1}
TeamOf(bot_id) == IF bot_id = 0 THEN "RED" ELSE "BLUE"
NoBot == -1
\* an id no bot has
UnknownBot == 7

Enemy(team) == IF team = "RED" THEN "BLUE" ELSE "RED"

Abs(n) == IF n < 0 THEN -n ELSE n
Max(a, b) == IF a >= b THEN a ELSE b

(***************************************************************************)
(* The world as one record, and results of calls                           *)
(***************************************************************************)
World ==
    [turn |-> turn, bots |-> bots, occupancy |-> occupancy, tiles |-> tiles,
     team_money |-> team_money, orders |-> orders, switched |-> switched,
     last_seen_turn |-> last_seen_turn, moves_left |-> moves_left,
     actions_left |-> actions_left]

Ret(s, r) == [s |-> s, ret |-> r]

(***************************************************************************)
(* GameState (the world-state store)                                       *)
(***************************************************************************)
\* GameState.get_team_money
get_team_money(s, team) == s.team_money[team]

\* GameState.add_team_money
add_team_money(s, team, delta) ==
    [s EXCEPT !.team_money[team] = @ + delta]

\* GameState.is_walkable
is_walkable(s, map_team, x, y) ==
    IsWalkableKind(s.tiles[map_team][<<x, y>>].kind)

\* GameState.move_bot: applies the step unless another bot holds the cell
move_bot(s, bot_id, dx, dy) ==
    LET b == s.bots[bot_id]
        to == <<b.x + dx, b.y + dy>>
    IN  IF ~in_bounds(to[1], to[2]) THEN Ret(s, FALSE)
        ELSE IF s.occupancy[b.map_team][to] # NoBot THEN Ret(s, FALSE)
        ELSE Ret([s EXCEPT !.bots[bot_id].x = to[1],
                           !.bots[bot_id].y = to[2],
                           !.occupancy[b.map_team][<<b.x, b.y>>] = NoBot,
                           !.occupancy[b.map_team][to] = bot_id],
                 TRUE)

(***************************************************************************)
(* RobotController: turn budgets                                           *)
(***************************************************************************)
\* RobotController.get_team_bot_ids
get_team_bot_ids(s, team) == {id \in BotIds : s.bots[id].team = team}

\* dict.get(bot_id, 0); a key the dict does not hold reads as 0
DictGet(d, bot_id) == IF bot_id \in DOMAIN d THEN d[bot_id] ELSE 0

\* __refresh_turn_budgets refilling the budgets of every bot, not only of the
\* team's own
refresh_every_bot(s, team) ==
    [s EXCEPT
        !.moves_left[team] = [id \in BotIds |-> 1],
        !.actions_left[team] = [id \in BotIds |-> 1]]

\* RobotController.__refresh_turn_budgets
refresh_turn_budgets(s, team) ==
    LET ids == get_team_bot_ids(s, team) IN
    [s EXCEPT
        !.moves_left[team] = [id \in BotIds |-> IF id \in ids THEN 1 ELSE @[id]],
        !.actions_left[team] = [id \in BotIds |-> IF id \in ids THEN 1 ELSE @[id]]]

\* an __ensure_turn that takes note of the turn and leaves the budgets
ensure_turn_keeps_budgets(s, team) ==
    IF s.turn # s.last_seen_turn[team]
    THEN [s EXCEPT !.last_seen_turn[team] = s.turn]
    ELSE s

\* RobotController.__ensure_turn
ensure_turn(s, team) ==
    IF s.turn # s.last_seen_turn[team]
    THEN refresh_turn_budgets([s EXCEPT !.last_seen_turn[team] = s.turn], team)
    ELSE s

\* __consume_move that checks the budget and forgets to take the unit
consume_move_unmetered(s, team, bot_id) ==
    LET s1 == ensure_turn(s, team) IN
    IF DictGet(s1.moves_left[team], bot_id) <= 0
    THEN Ret(s1, FALSE)
    ELSE Ret(s1, TRUE)

\* RobotController.__consume_move
consume_move(s, team, bot_id) ==
    LET s1 == ensure_turn(s, team) IN
    IF DictGet(s1.moves_left[team], bot_id) <= 0
    THEN Ret(s1, FALSE)
    ELSE Ret([s1 EXCEPT !.moves_left[team][bot_id] = @ - 1], TRUE)

\* __consume_action that checks the budget and forgets to take the unit
consume_action_unmetered(s, team, bot_id) ==
    LET s1 == ensure_turn(s, team) IN
    IF DictGet(s1.actions_left[team], bot_id) <= 0
    THEN Ret(s1, FALSE)
    ELSE Ret(s1, TRUE)

\* RobotController.__consume_action
consume_action(s, team, bot_id) ==
    LET s1 == ensure_turn(s, team) IN
    IF DictGet(s1.actions_left[team], bot_id) <= 0
    THEN Ret(s1, FALSE)
    ELSE Ret([s1 EXCEPT !.actions_left[team][bot_id] = @ - 1], TRUE)

(***************************************************************************)
(* RobotController: internal helpers                                       *)
(***************************************************************************)
\* RobotController.__safe_get_bot: TRUE iff it returns a bot
safe_get_bot(s, team, bot_id) ==
    bot_id \in BotIds /\ s.bots[bot_id].team = team

\* __chebyshev_dist taking the smaller of the two axis distances
smaller_axis_dist(x0, y0, x1, y1) ==
    IF Abs(x0 - x1) <= Abs(y0 - y1) THEN Abs(x0 - x1) ELSE Abs(y0 - y1)

\* RobotController.__chebyshev_dist
chebyshev_dist(x0, y0, x1, y1) == Max(Abs(x0 - x1), Abs(y0 - y1))

\* __can_move_internal without its walkability check
can_move_through_walls(s, map_team, x, y, dx, dy) ==
    LET new_x == x + dx
        new_y == y + dy
    IN  IF ~in_bounds(new_x, new_y) THEN FALSE
        ELSE IF s.occupancy[map_team][<<new_x, new_y>>] # NoBot THEN FALSE
        ELSE TRUE

\* RobotController.__can_move_internal
can_move_internal(s, map_team, x, y, dx, dy) ==
    LET new_x == x + dx
        new_y == y + dy
    IN  IF ~in_bounds(new_x, new_y) THEN FALSE
        ELSE IF ~is_walkable(s, map_team, new_x, new_y) THEN FALSE
        ELSE IF s.occupancy[map_team][<<new_x, new_y>>] # NoBot THEN FALSE
        ELSE TRUE

(***************************************************************************)
(* RobotController: movement                                               *)
(***************************************************************************)
\* a move that spends the budget only once the step is found legal
move_validate_then_consume(s, team, bot_id, dx, dy) ==
    IF ~safe_get_bot(s, team, bot_id) THEN Ret(s, FALSE)
    ELSE IF Max(Abs(dx), Abs(dy)) > 1 \/ (dx = 0 /\ dy = 0)
    THEN Ret(ensure_turn(s, team), FALSE)
    ELSE
    LET s1 == ensure_turn(s, team)
        b == s1.bots[bot_id]
    IN  IF ~can_move_internal(s1, b.map_team, b.x, b.y, dx, dy) THEN Ret(s1, FALSE)
        ELSE consume_move(s1, team, bot_id)

\* RobotController.move, up to the call of move_bot: ret is FALSE where move
\* has returned False by then
move_validate(s, team, bot_id, dx, dy) ==
    IF ~safe_get_bot(s, team, bot_id) THEN Ret(s, FALSE)
    ELSE
    LET c == consume_move(s, team, bot_id) IN
    IF ~c.ret THEN Ret(c.s, FALSE)
    ELSE IF Max(Abs(dx), Abs(dy)) > 1 \/ (dx = 0 /\ dy = 0) THEN Ret(c.s, FALSE)
    ELSE
    LET b == c.s.bots[bot_id] IN
    IF ~can_move_internal(c.s, b.map_team, b.x, b.y, dx, dy) THEN Ret(c.s, FALSE)
    ELSE Ret(c.s, TRUE)

\* RobotController.move, from the call of move_bot on: what move_bot returns
\* is logged and dropped, and move returns True
move_commit(s, bot_id, dx, dy) == Ret(move_bot(s, bot_id, dx, dy).s, TRUE)

\* RobotController.move
move(s, team, bot_id, dx, dy) ==
    LET v == move_validate(s, team, bot_id, dx, dy) IN
    IF ~v.ret THEN v
    ELSE move_commit(v.s, bot_id, dx, dy)

(***************************************************************************)
(* RobotController: targeting                                              *)
(***************************************************************************)
\* the value of an optional target coordinate the caller left out
Unspecified == -9

IsNone(it) == it.type = "None"

SetHolding(s, bot_id, it) == [s EXCEPT !.bots[bot_id].holding = it]

SetTile(s, map_team, cell, tile) == [s EXCEPT !.tiles[map_team][cell] = tile]

\* RobotController.__resolve_target_tile: ok is FALSE where it returns None
resolve_target_tile(s, team, bot_id, target_x, target_y) ==
    IF ~safe_get_bot(s, team, bot_id) THEN [ok |-> FALSE, x |-> 0, y |-> 0]
    ELSE
    LET b == s.bots[bot_id]
        x == IF target_x = Unspecified THEN b.x ELSE target_x
        y == IF target_y = Unspecified THEN b.y ELSE target_y
    IN  IF chebyshev_dist(b.x, b.y, x, y) > 1 THEN [ok |-> FALSE, x |-> x, y |-> y]
        ELSE IF ~in_bounds(x, y) THEN [ok |-> FALSE, x |-> x, y |-> y]
        ELSE [ok |-> TRUE, x |-> x, y |-> y]

\* the tile a resolved target stands for: GameState.get_tile(b.map_team, x, y)
TargetTile(s, bot_id, tgt) == s.tiles[s.bots[bot_id].map_team][<<tgt.x, tgt.y>>]

\* getattr(tile, "item", None)
TileItem(tile) == IF HasItemSlot(tile) THEN tile.item ELSE NoItem

\* a helper that starts every food at cook_progress 0
set_cook_progress_to_zero(cooker, food) == [cooker EXCEPT !.cook_progress = 0]

\* RobotController.__set_cook_progress_for_food
set_cook_progress_for_food(cooker, food) ==
    IF food.cooked_stage = 0 THEN [cooker EXCEPT !.cook_progress = 0]
    ELSE IF food.cooked_stage = 1 THEN [cooker EXCEPT !.cook_progress = COOK_PROGRESS]
    ELSE [cooker EXCEPT !.cook_progress = BURN_PROGRESS]

\* a signature that tells items apart by type and food name only
signature_by_name(it) ==
    IF IsFood(it) THEN <<"Food", it.food_name>>
    ELSE IF IsPlate(it)
    THEN <<"Plate", [i \in 1 .. Len(it.food) |-> it.food[i].food_name]>>
    ELSE IF IsPan(it)
    THEN IF IsNone(it.food) THEN <<"Pan", "None">>
         ELSE <<"Pan", it.food.food_name>>
    ELSE <<it.type>>

\* RobotController.__item_signature
RECURSIVE item_signature(_)
item_signature(it) ==
    IF IsFood(it)
    THEN <<"Food", it.food_name, it.chopped, it.cooked_stage>>
    ELSE IF IsPlate(it)
    THEN <<"Plate", it.dirty,
           [i \in 1 .. Len(it.food) |->
               <<it.food[i].food_name, it.food[i].chopped, it.food[i].cooked_stage>>]>>
    ELSE IF IsPan(it)
    THEN IF IsNone(it.food) THEN <<"Pan", <<"None">> >>
         ELSE <<"Pan", item_signature(it.food)>>
    ELSE <<it.type>>

(***************************************************************************)
(* RobotController: inventory                                              *)
(***************************************************************************)
\* a pickup that takes from the map of the bot's team, wherever the bot is
pickup_on_home_map(s, team, bot_id, target_x, target_y) ==
    IF ~safe_get_bot(s, team, bot_id) THEN Ret(s, FALSE)
    ELSE
    LET c == consume_action(s, team, bot_id) IN
    IF ~c.ret THEN Ret(c.s, FALSE)
    ELSE IF ~IsNone(c.s.bots[bot_id].holding) THEN Ret(c.s, FALSE)
    ELSE
    LET tgt == resolve_target_tile(c.s, team, bot_id, target_x, target_y) IN
    IF ~tgt.ok THEN Ret(c.s, FALSE)
    ELSE
    LET m == c.s.bots[bot_id].team
        cell == <<tgt.x, tgt.y>>
        tile == c.s.tiles[m][cell]
    IN  IF tile.kind = "BOX"
        THEN IF tile.count <= 0 \/ IsNone(tile.item)
             THEN Ret(SetTile(c.s, m, cell,
                              [tile EXCEPT !.count = 0, !.item = NoItem]), FALSE)
             ELSE Ret(SetHolding(
                        SetTile(c.s, m, cell,
                                IF tile.count - 1 <= 0
                                THEN [tile EXCEPT !.count = 0, !.item = NoItem]
                                ELSE [tile EXCEPT !.count = tile.count - 1]),
                        bot_id, tile.item), TRUE)
        ELSE IF IsNone(TileItem(tile)) THEN Ret(c.s, FALSE)
        ELSE Ret(SetHolding(SetTile(c.s, m, cell, [tile EXCEPT !.item = NoItem]),
                            bot_id, tile.item), TRUE)

\* RobotController.pickup
pickup(s, team, bot_id, target_x, target_y) ==
    IF ~safe_get_bot(s, team, bot_id) THEN Ret(s, FALSE)
    ELSE
    LET c == consume_action(s, team, bot_id) IN
    IF ~c.ret THEN Ret(c.s, FALSE)
    ELSE IF ~IsNone(c.s.bots[bot_id].holding) THEN Ret(c.s, FALSE)
    ELSE
    LET tgt == resolve_target_tile(c.s, team, bot_id, target_x, target_y) IN
    IF ~tgt.ok THEN Ret(c.s, FALSE)
    ELSE
    LET m == c.s.bots[bot_id].map_team
        cell == <<tgt.x, tgt.y>>
        tile == TargetTile(c.s, bot_id, tgt)
    IN  IF tile.kind = "BOX"
        THEN IF tile.count <= 0 \/ IsNone(tile.item)
             THEN Ret(SetTile(c.s, m, cell,
                              [tile EXCEPT !.count = 0, !.item = NoItem]), FALSE)
             ELSE Ret(SetHolding(
                        SetTile(c.s, m, cell,
                                IF tile.count - 1 <= 0
                                THEN [tile EXCEPT !.count = 0, !.item = NoItem]
                                ELSE [tile EXCEPT !.count = tile.count - 1]),
                        bot_id, tile.item), TRUE)
        ELSE IF IsNone(TileItem(tile)) THEN Ret(c.s, FALSE)
        ELSE Ret(SetHolding(SetTile(c.s, m, cell, [tile EXCEPT !.item = NoItem]),
                            bot_id, tile.item), TRUE)

\* a place that puts the held pan on the cooker and drops the pan it finds
place_on_cooker_drops_old_pan(s, bot_id, m, cell, tile) ==
    LET holding == s.bots[bot_id].holding IN
    IF IsPan(holding)
    THEN LET old_pan == IF IsPan(tile.item) THEN tile.item ELSE NoItem IN
         IF IsPan(old_pan) /\ ~IsNone(old_pan.food) THEN Ret(s, FALSE)
         ELSE LET t1 == [tile EXCEPT !.item = holding]
                  t2 == IF IsFood(holding.food) /\ FoodType[holding.food.food_name].can_cook
                        THEN set_cook_progress_for_food(t1, holding.food)
                        ELSE [t1 EXCEPT !.cook_progress = 0]
              IN  Ret(SetHolding(SetTile(s, m, cell, t2), bot_id, NoItem), TRUE)
    ELSE IF IsFood(holding)
    THEN LET pan == tile.item IN
         IF ~IsPan(pan) THEN Ret(s, FALSE)
         ELSE IF ~IsNone(pan.food) THEN Ret(s, FALSE)
         ELSE IF ~FoodType[holding.food_name].can_cook THEN Ret(s, FALSE)
         ELSE Ret(SetHolding(
                    SetTile(s, m, cell,
                            set_cook_progress_for_food(
                                [tile EXCEPT !.item = Pan(holding)], holding)),
                    bot_id, NoItem), TRUE)
    ELSE Ret(s, FALSE)

\* a place that puts pan or food on the cooker and leaves cook_progress as
\* it finds it
place_on_cooker_keeps_progress(s, bot_id, m, cell, tile) ==
    LET holding == s.bots[bot_id].holding IN
    IF IsPan(holding)
    THEN LET old_pan == IF IsPan(tile.item) THEN tile.item ELSE NoItem IN
         IF IsPan(old_pan) /\ ~IsNone(old_pan.food) THEN Ret(s, FALSE)
         ELSE Ret(SetHolding(SetTile(s, m, cell, [tile EXCEPT !.item = holding]),
                             bot_id, old_pan), TRUE)
    ELSE IF IsFood(holding)
    THEN LET pan == tile.item IN
         IF ~IsPan(pan) THEN Ret(s, FALSE)
         ELSE IF ~IsNone(pan.food) THEN Ret(s, FALSE)
         ELSE IF ~FoodType[holding.food_name].can_cook THEN Ret(s, FALSE)
         ELSE Ret(SetHolding(SetTile(s, m, cell, [tile EXCEPT !.item = Pan(holding)]),
                             bot_id, NoItem), TRUE)
    ELSE Ret(s, FALSE)

\* RobotController.place, target a Cooker
place_on_cooker(s, bot_id, m, cell, tile) ==
    LET holding == s.bots[bot_id].holding IN
    IF IsPan(holding)
    THEN LET old_pan == IF IsPan(tile.item) THEN tile.item ELSE NoItem IN
         IF IsPan(old_pan) /\ ~IsNone(old_pan.food) THEN Ret(s, FALSE)
         ELSE LET t1 == [tile EXCEPT !.item = holding]
                  t2 == IF IsFood(holding.food) /\ FoodType[holding.food.food_name].can_cook
                        THEN set_cook_progress_for_food(t1, holding.food)
                        ELSE [t1 EXCEPT !.cook_progress = 0]
              IN  Ret(SetHolding(SetTile(s, m, cell, t2), bot_id, old_pan), TRUE)
    ELSE IF IsFood(holding)
    THEN LET pan == tile.item IN
         IF ~IsPan(pan) THEN Ret(s, FALSE)
         ELSE IF ~IsNone(pan.food) THEN Ret(s, FALSE)
         ELSE IF ~FoodType[holding.food_name].can_cook THEN Ret(s, FALSE)
         ELSE Ret(SetHolding(
                    SetTile(s, m, cell,
                            set_cook_progress_for_food(
                                [tile EXCEPT !.item = Pan(holding)], holding)),
                    bot_id, NoItem), TRUE)
    ELSE Ret(s, FALSE)

\* RobotController.place, target a Box (Box.enforce_invar first)
place_on_box(s, bot_id, m, cell, tile0) ==
    LET holding == s.bots[bot_id].holding
        tile == IF tile0.count <= 0 \/ IsNone(tile0.item)
                THEN [tile0 EXCEPT !.count = 0, !.item = NoItem]
                ELSE tile0
    IN  IF tile.count = 0 \/ IsNone(tile.item)
        THEN Ret(SetHolding(SetTile(s, m, cell,
                                    [tile EXCEPT !.item = holding, !.count = 1]),
                            bot_id, NoItem), TRUE)
        ELSE IF item_signature(tile.item) # item_signature(holding)
        THEN Ret(SetTile(s, m, cell, tile), FALSE)
        ELSE Ret(SetHolding(SetTile(s, m, cell, [tile EXCEPT !.count = @ + 1]),
                            bot_id, NoItem), TRUE)

\* RobotController.place
place(s, team, bot_id, target_x, target_y) ==
    IF ~safe_get_bot(s, team, bot_id) THEN Ret(s, FALSE)
    ELSE
    LET c == consume_action(s, team, bot_id) IN
    IF ~c.ret THEN Ret(c.s, FALSE)
    ELSE IF IsNone(c.s.bots[bot_id].holding) THEN Ret(c.s, FALSE)
    ELSE
    LET tgt == resolve_target_tile(c.s, team, bot_id, target_x, target_y) IN
    IF ~tgt.ok THEN Ret(c.s, FALSE)
    ELSE
    LET m == c.s.bots[bot_id].map_team
        cell == <<tgt.x, tgt.y>>
        tile == TargetTile(c.s, bot_id, tgt)
    IN  IF tile.kind = "COOKER" THEN place_on_cooker(c.s, bot_id, m, cell, tile)
        ELSE IF tile.kind = "BOX" THEN place_on_box(c.s, bot_id, m, cell, tile)
        ELSE IF ~HasItemSlot(tile) THEN Ret(c.s, FALSE)
        ELSE IF ~IsNone(tile.item) THEN Ret(c.s, FALSE)
        ELSE Ret(SetHolding(SetTile(c.s, m, cell,
                                    [tile EXCEPT !.item = c.s.bots[bot_id].holding]),
                            bot_id, NoItem), TRUE)

\* a trash that destroys whatever is held
trash_destroys(s, team, bot_id, target_x, target_y) ==
    IF ~safe_get_bot(s, team, bot_id) THEN Ret(s, FALSE)
    ELSE
    LET c == consume_action(s, team, bot_id) IN
    IF ~c.ret THEN Ret(c.s, FALSE)
    ELSE IF IsNone(c.s.bots[bot_id].holding) THEN Ret(c.s, FALSE)
    ELSE
    LET tgt == resolve_target_tile(c.s, team, bot_id, target_x, target_y) IN
    IF ~tgt.ok THEN Ret(c.s, FALSE)
    ELSE IF TargetTile(c.s, bot_id, tgt).kind # "TRASH" THEN Ret(c.s, FALSE)
    ELSE Ret(SetHolding(c.s, bot_id, NoItem), TRUE)

\* RobotController.trash
trash(s, team, bot_id, target_x, target_y) ==
    IF ~safe_get_bot(s, team, bot_id) THEN Ret(s, FALSE)
    ELSE
    LET c == consume_action(s, team, bot_id) IN
    IF ~c.ret THEN Ret(c.s, FALSE)
    ELSE IF IsNone(c.s.bots[bot_id].holding) THEN Ret(c.s, FALSE)
    ELSE
    LET tgt == resolve_target_tile(c.s, team, bot_id, target_x, target_y) IN
    IF ~tgt.ok THEN Ret(c.s, FALSE)
    ELSE IF TargetTile(c.s, bot_id, tgt).kind # "TRASH" THEN Ret(c.s, FALSE)
    ELSE IF IsPlate(c.s.bots[bot_id].holding)
    THEN Ret(SetHolding(c.s, bot_id, Plate(<<>>, FALSE)), TRUE)
    ELSE IF IsPan(c.s.bots[bot_id].holding)
    THEN Ret(SetHolding(c.s, bot_id, Pan(NoItem)), TRUE)
    ELSE Ret(SetHolding(c.s, bot_id, NoItem), TRUE)

(***************************************************************************)
(* RobotController: shop                                                   *)
(***************************************************************************)
\* RobotController.__shop_has_item
shop_has_item(tile, item) == item \in ShopMenu

\* RobotController.__buyable_cost
buyable_cost(item) ==
    IF item \in FoodNames THEN FoodType[item].buy_cost
    ELSE IF item \in ShopItemNames THEN ShopCosts[item]
    ELSE 0

\* __grant_buyable_to_bot with the two shop items' branches swapped
grant_swapped(s, team, bot_id, item) ==
    IF ~safe_get_bot(s, team, bot_id) THEN Ret(s, FALSE)
    ELSE IF ~IsNone(s.bots[bot_id].holding) THEN Ret(s, FALSE)
    ELSE IF item \in FoodNames
    THEN Ret(SetHolding(s, bot_id, Food(item, FALSE, 0)), TRUE)
    ELSE IF item \in ShopItemNames
    THEN IF item = "PLATE" THEN Ret(SetHolding(s, bot_id, Pan(NoItem)), TRUE)
         ELSE IF item = "PAN" THEN Ret(SetHolding(s, bot_id, Plate(<<>>, FALSE)), TRUE)
         ELSE Ret(s, FALSE)
    ELSE Ret(s, FALSE)

\* RobotController.__grant_buyable_to_bot
grant_buyable_to_bot(s, team, bot_id, item) ==
    IF ~safe_get_bot(s, team, bot_id) THEN Ret(s, FALSE)
    ELSE IF ~IsNone(s.bots[bot_id].holding) THEN Ret(s, FALSE)
    ELSE IF item \in FoodNames
    THEN Ret(SetHolding(s, bot_id, Food(item, FALSE, 0)), TRUE)
    ELSE IF item \in ShopItemNames
    THEN IF item = "PLATE" THEN Ret(SetHolding(s, bot_id, Plate(<<>>, FALSE)), TRUE)
         ELSE IF item = "PAN" THEN Ret(SetHolding(s, bot_id, Pan(NoItem)), TRUE)
         ELSE Ret(s, FALSE)
    ELSE Ret(s, FALSE)

\* a buy that takes the money at the counter of the shop, before it looks at
\* the bot's hands and the shop's menu
buy_pays_first(s, team, bot_id, item, target_x, target_y) ==
    IF ~safe_get_bot(s, team, bot_id) THEN Ret(s, FALSE)
    ELSE
    LET c == consume_action(s, team, bot_id) IN
    IF ~c.ret THEN Ret(c.s, FALSE)
    ELSE
    LET tgt == resolve_target_tile(c.s, team, bot_id, target_x, target_y) IN
    IF ~tgt.ok THEN Ret(c.s, FALSE)
    ELSE IF TargetTile(c.s, bot_id, tgt).kind # "SHOP" THEN Ret(c.s, FALSE)
    ELSE
    LET paid == add_team_money(c.s, team, -buyable_cost(item)) IN
    IF ~IsNone(paid.bots[bot_id].holding) THEN Ret(paid, FALSE)
    ELSE IF ~shop_has_item(TargetTile(paid, bot_id, tgt), item) THEN Ret(paid, FALSE)
    ELSE IF get_team_money(paid, team) < 0 THEN Ret(paid, FALSE)
    ELSE grant_buyable_to_bot(paid, team, bot_id, item)

\* RobotController.buy
buy(s, team, bot_id, item, target_x, target_y) ==
    IF ~safe_get_bot(s, team, bot_id) THEN Ret(s, FALSE)
    ELSE
    LET c == consume_action(s, team, bot_id) IN
    IF ~c.ret THEN Ret(c.s, FALSE)
    ELSE
    LET tgt == resolve_target_tile(c.s, team, bot_id, target_x, target_y) IN
    IF ~tgt.ok THEN Ret(c.s, FALSE)
    ELSE IF TargetTile(c.s, bot_id, tgt).kind # "SHOP" THEN Ret(c.s, FALSE)
    ELSE IF ~IsNone(c.s.bots[bot_id].holding) THEN Ret(c.s, FALSE)
    ELSE IF ~shop_has_item(TargetTile(c.s, bot_id, tgt), item) THEN Ret(c.s, FALSE)
    ELSE
    LET cost == buyable_cost(item) IN
    IF get_team_money(c.s, team) < cost THEN Ret(c.s, FALSE)
    ELSE
    LET paid == add_team_money(c.s, team, -cost)
        g == grant_buyable_to_bot(paid, team, bot_id, item)
    IN  IF ~g.ret THEN Ret(add_team_money(g.s, team, cost), FALSE)
        ELSE Ret(g.s, TRUE)

(***************************************************************************)
(* RobotController: food processing                                        *)
(***************************************************************************)
\* RobotController.chop
chop(s, team, bot_id, target_x, target_y) ==
    IF ~safe_get_bot(s, team, bot_id) THEN Ret(s, FALSE)
    ELSE
    LET c == consume_action(s, team, bot_id) IN
    IF ~c.ret THEN Ret(c.s, FALSE)
    ELSE
    LET tgt == resolve_target_tile(c.s, team, bot_id, target_x, target_y) IN
    IF ~tgt.ok THEN Ret(c.s, FALSE)
    ELSE
    LET m == c.s.bots[bot_id].map_team
        cell == <<tgt.x, tgt.y>>
        tile == TargetTile(c.s, bot_id, tgt)
    IN  IF tile.kind # "COUNTER" THEN Ret(c.s, FALSE)
        ELSE IF ~IsNone(c.s.bots[bot_id].holding) THEN Ret(c.s, FALSE)
        ELSE IF IsFood(TileItem(tile))
        THEN IF ~FoodType[tile.item.food_name].can_chop THEN Ret(c.s, FALSE)
             ELSE Ret(SetTile(c.s, m, cell, [tile EXCEPT !.item.chopped = TRUE]), TRUE)
        ELSE Ret(c.s, FALSE)

\* a start_cook that takes any food, cookable or not
start_cook_any_food(s, team, bot_id, target_x, target_y) ==
    IF ~safe_get_bot(s, team, bot_id) THEN Ret(s, FALSE)
    ELSE
    LET c == consume_action(s, team, bot_id) IN
    IF ~c.ret THEN Ret(c.s, FALSE)
    ELSE
    LET tgt == resolve_target_tile(c.s, team, bot_id, target_x, target_y) IN
    IF ~tgt.ok THEN Ret(c.s, FALSE)
    ELSE
    LET m == c.s.bots[bot_id].map_team
        cell == <<tgt.x, tgt.y>>
        tile == TargetTile(c.s, bot_id, tgt)
        holding == c.s.bots[bot_id].holding
    IN  IF tile.kind # "COOKER" THEN Ret(c.s, FALSE)
        ELSE IF ~IsPan(tile.item) THEN Ret(c.s, FALSE)
        ELSE IF ~IsNone(tile.item.food) THEN Ret(c.s, FALSE)
        ELSE IF ~IsFood(holding) THEN Ret(c.s, FALSE)
        ELSE Ret(SetHolding(
                   SetTile(c.s, m, cell,
                           [tile EXCEPT !.item = Pan(holding),
                                        !.cook_progress =
                                            IF holding.cooked_stage = 0 THEN 0
                                            ELSE IF holding.cooked_stage = 1
                                            THEN COOK_PROGRESS
                                            ELSE BURN_PROGRESS]),
                   bot_id, NoItem), TRUE)

\* start_cook where the cooker of raw food starts at the cooked threshold
start_cook_preheated(s, team, bot_id, target_x, target_y) ==
    IF ~safe_get_bot(s, team, bot_id) THEN Ret(s, FALSE)
    ELSE
    LET c == consume_action(s, team, bot_id) IN
    IF ~c.ret THEN Ret(c.s, FALSE)
    ELSE
    LET tgt == resolve_target_tile(c.s, team, bot_id, target_x, target_y) IN
    IF ~tgt.ok THEN Ret(c.s, FALSE)
    ELSE
    LET m == c.s.bots[bot_id].map_team
        cell == <<tgt.x, tgt.y>>
        tile == TargetTile(c.s, bot_id, tgt)
        holding == c.s.bots[bot_id].holding
    IN  IF tile.kind # "COOKER" THEN Ret(c.s, FALSE)
        ELSE IF ~IsPan(tile.item) THEN Ret(c.s, FALSE)
        ELSE IF ~IsNone(tile.item.food) THEN Ret(c.s, FALSE)
        ELSE IF ~(IsFood(holding) /\ FoodType[holding.food_name].can_cook)
        THEN Ret(c.s, FALSE)
        ELSE Ret(SetHolding(
                   SetTile(c.s, m, cell,
                           [tile EXCEPT !.item = Pan(holding),
                                        !.cook_progress =
                                            IF holding.cooked_stage = 2
                                            THEN BURN_PROGRESS
                                            ELSE COOK_PROGRESS]),
                   bot_id, NoItem), TRUE)

\* RobotController.start_cook
start_cook(s, team, bot_id, target_x, target_y) ==
    IF ~safe_get_bot(s, team, bot_id) THEN Ret(s, FALSE)
    ELSE
    LET c == consume_action(s, team, bot_id) IN
    IF ~c.ret THEN Ret(c.s, FALSE)
    ELSE
    LET tgt == resolve_target_tile(c.s, team, bot_id, target_x, target_y) IN
    IF ~tgt.ok THEN Ret(c.s, FALSE)
    ELSE
    LET m == c.s.bots[bot_id].map_team
        cell == <<tgt.x, tgt.y>>
        tile == TargetTile(c.s, bot_id, tgt)
        holding == c.s.bots[bot_id].holding
    IN  IF tile.kind # "COOKER" THEN Ret(c.s, FALSE)
        ELSE IF ~IsPan(tile.item) THEN Ret(c.s, FALSE)
        ELSE IF ~IsNone(tile.item.food) THEN Ret(c.s, FALSE)
        ELSE IF ~(IsFood(holding) /\ FoodType[holding.food_name].can_cook)
        THEN Ret(c.s, FALSE)
        ELSE Ret(SetHolding(
                   SetTile(c.s, m, cell,
                           [tile EXCEPT !.item = Pan(holding),
                                        !.cook_progress =
                                            IF holding.cooked_stage = 0 THEN 0
                                            ELSE IF holding.cooked_stage = 1
                                            THEN COOK_PROGRESS
                                            ELSE BURN_PROGRESS]),
                   bot_id, NoItem), TRUE)

\* take_from_pan that leaves the cooker's cook_progress as it was
take_from_pan_keeps_progress(s, team, bot_id, target_x, target_y) ==
    IF ~safe_get_bot(s, team, bot_id) THEN Ret(s, FALSE)
    ELSE
    LET c == consume_action(s, team, bot_id) IN
    IF ~c.ret THEN Ret(c.s, FALSE)
    ELSE IF ~IsNone(c.s.bots[bot_id].holding) THEN Ret(c.s, FALSE)
    ELSE
    LET tgt == resolve_target_tile(c.s, team, bot_id, target_x, target_y) IN
    IF ~tgt.ok THEN Ret(c.s, FALSE)
    ELSE
    LET m == c.s.bots[bot_id].map_team
        cell == <<tgt.x, tgt.y>>
        tile == TargetTile(c.s, bot_id, tgt)
    IN  IF tile.kind # "COOKER" THEN Ret(c.s, FALSE)
        ELSE IF ~IsPan(tile.item) THEN Ret(c.s, FALSE)
        ELSE IF IsNone(tile.item.food) THEN Ret(c.s, FALSE)
        ELSE Ret(SetHolding(
                   SetTile(c.s, m, cell, [tile EXCEPT !.item = Pan(NoItem)]),
                   bot_id, tile.item.food), TRUE)

\* RobotController.take_from_pan
take_from_pan(s, team, bot_id, target_x, target_y) ==
    IF ~safe_get_bot(s, team, bot_id) THEN Ret(s, FALSE)
    ELSE
    LET c == consume_action(s, team, bot_id) IN
    IF ~c.ret THEN Ret(c.s, FALSE)
    ELSE IF ~IsNone(c.s.bots[bot_id].holding) THEN Ret(c.s, FALSE)
    ELSE
    LET tgt == resolve_target_tile(c.s, team, bot_id, target_x, target_y) IN
    IF ~tgt.ok THEN Ret(c.s, FALSE)
    ELSE
    LET m == c.s.bots[bot_id].map_team
        cell == <<tgt.x, tgt.y>>
        tile == TargetTile(c.s, bot_id, tgt)
    IN  IF tile.kind # "COOKER" THEN Ret(c.s, FALSE)
        ELSE IF ~IsPan(tile.item) THEN Ret(c.s, FALSE)
        ELSE IF IsNone(tile.item.food) THEN Ret(c.s, FALSE)
        ELSE Ret(SetHolding(
                   SetTile(c.s, m, cell,
                           [tile EXCEPT !.item = Pan(NoItem), !.cook_progress = 0]),
                   bot_id, tile.item.food), TRUE)

(***************************************************************************)
(* RobotController: plates and sink                                        *)
(***************************************************************************)
\* RobotController.take_clean_plate
take_clean_plate(s, team, bot_id, target_x, target_y) ==
    IF ~safe_get_bot(s, team, bot_id) THEN Ret(s, FALSE)
    ELSE
    LET c == consume_action(s, team, bot_id) IN
    IF ~c.ret THEN Ret(c.s, FALSE)
    ELSE IF ~IsNone(c.s.bots[bot_id].holding) THEN Ret(c.s, FALSE)
    ELSE
    LET tgt == resolve_target_tile(c.s, team, bot_id, target_x, target_y) IN
    IF ~tgt.ok THEN Ret(c.s, FALSE)
    ELSE
    LET m == c.s.bots[bot_id].map_team
        cell == <<tgt.x, tgt.y>>
        tile == TargetTile(c.s, bot_id, tgt)
    IN  IF tile.kind # "SINKTABLE" THEN Ret(c.s, FALSE)
        ELSE IF tile.num_clean_plates <= 0 THEN Ret(c.s, FALSE)
        ELSE Ret(SetHolding(
                   SetTile(c.s, m, cell, [tile EXCEPT !.num_clean_plates = @ - 1]),
                   bot_id, Plate(<<>>, FALSE)), TRUE)

\* RobotController.put_dirty_plate_in_sink
put_dirty_plate_in_sink(s, team, bot_id, target_x, target_y) ==
    IF ~safe_get_bot(s, team, bot_id) THEN Ret(s, FALSE)
    ELSE
    LET c == consume_action(s, team, bot_id) IN
    IF ~c.ret THEN Ret(c.s, FALSE)
    ELSE IF ~IsPlate(c.s.bots[bot_id].holding) THEN Ret(c.s, FALSE)
    ELSE IF ~c.s.bots[bot_id].holding.dirty THEN Ret(c.s, FALSE)
    ELSE
    LET tgt == resolve_target_tile(c.s, team, bot_id, target_x, target_y) IN
    IF ~tgt.ok THEN Ret(c.s, FALSE)
    ELSE
    LET m == c.s.bots[bot_id].map_team
        cell == <<tgt.x, tgt.y>>
        tile == TargetTile(c.s, bot_id, tgt)
    IN  IF tile.kind # "SINK" THEN Ret(c.s, FALSE)
        ELSE Ret(SetHolding(
                   SetTile(c.s, m, cell, [tile EXCEPT !.num_dirty_plates = @ + 1]),
                   bot_id, NoItem), TRUE)

\* RobotController.wash_sink
wash_sink(s, team, bot_id, target_x, target_y) ==
    IF ~safe_get_bot(s, team, bot_id) THEN Ret(s, FALSE)
    ELSE
    LET c == consume_action(s, team, bot_id) IN
    IF ~c.ret THEN Ret(c.s, FALSE)
    ELSE
    LET tgt == resolve_target_tile(c.s, team, bot_id, target_x, target_y) IN
    IF ~tgt.ok THEN Ret(c.s, FALSE)
    ELSE
    LET m == c.s.bots[bot_id].map_team
        cell == <<tgt.x, tgt.y>>
        tile == TargetTile(c.s, bot_id, tgt)
    IN  IF tile.kind # "SINK" THEN Ret(c.s, FALSE)
        ELSE IF tile.num_dirty_plates <= 0 THEN Ret(c.s, FALSE)
        ELSE Ret(SetTile(c.s, m, cell, [tile EXCEPT !.using = TRUE]), TRUE)

\* RobotController.add_food_to_plate
add_food_to_plate(s, team, bot_id, target_x, target_y) ==
    IF ~safe_get_bot(s, team, bot_id) THEN Ret(s, FALSE)
    ELSE
    LET c == consume_action(s, team, bot_id) IN
    IF ~c.ret THEN Ret(c.s, FALSE)
    ELSE
    LET tgt == resolve_target_tile(c.s, team, bot_id, target_x, target_y) IN
    IF ~tgt.ok THEN Ret(c.s, FALSE)
    ELSE
    LET m == c.s.bots[bot_id].map_team
        cell == <<tgt.x, tgt.y>>
        tile == TargetTile(c.s, bot_id, tgt)
        holding == c.s.bots[bot_id].holding
    IN  IF IsPlate(holding)
        THEN IF holding.dirty THEN Ret(c.s, FALSE)
             ELSE IF IsFood(TileItem(tile))
             THEN Ret(SetHolding(
                        SetTile(c.s, m, cell, [tile EXCEPT !.item = NoItem]),
                        bot_id, [holding EXCEPT !.food = Append(@, tile.item)]), TRUE)
             ELSE Ret(c.s, FALSE)
        ELSE IF IsFood(holding) /\ IsPlate(TileItem(tile))
        THEN IF tile.item.dirty THEN Ret(c.s, FALSE)
             ELSE Ret(SetHolding(
                        SetTile(c.s, m, cell,
                                [tile EXCEPT !.item.food = Append(@, holding)]),
                        bot_id, NoItem), TRUE)
        ELSE Ret(c.s, FALSE)

(***************************************************************************)
(* GameState: submission                                                   *)
(***************************************************************************)
\* how many times name n occurs in the sequence q
CountIn(q, n) == Cardinality({i \in 1 .. Len(q) : q[i] = n})

\* the food names on a plate, in plating order
PlateNames(plate) == [i \in 1 .. Len(plate.food) |-> plate.food[i].food_name]

\* two sequences of food names are equal as multisets
SameMultiset(q1, q2) ==
    /\ Len(q1) = Len(q2)
    /\ \A n \in FoodNames : CountIn(q1, n) = CountIn(q2, n)

\* the orders of a team a plate would complete at the current turn
MatchingOrders(s, team, bot_id, plate) ==
    {i \in 1 .. Len(s.orders[team]) :
        /\ is_active(s.orders[team][i], s.turn)
        /\ s.orders[team][i].claimed_by \in {None, bot_id}
        /\ SameMultiset(PlateNames(plate), s.orders[team][i].required)}

\* GameState.submit_plate; pick is the store's choice among several matching
\* orders (any tie-break rule is one way of picking)
submit_plate(s, bot_id, x, y, pick) ==
    LET b == s.bots[bot_id]
        plate == b.holding
    IN  IF ~IsPlate(plate) THEN Ret(s, FALSE)
        ELSE IF plate.dirty THEN Ret(s, FALSE)
        ELSE
        LET matching == MatchingOrders(s, b.team, bot_id, plate) IN
        IF matching = {} THEN Ret(s, FALSE)
        ELSE
        LET i == IF pick \in matching THEN pick
                 ELSE CHOOSE j \in matching : \A k \in matching : j <= k
            paid == add_team_money(s, b.team, s.orders[b.team][i].reward)
        IN  Ret([paid EXCEPT !.orders[b.team][i].completed_turn = s.turn,
                             !.bots[bot_id].holding = Plate(<<>>, TRUE)],
                TRUE)

\* submit that reports success whenever it has handed the plate to the store,
\* as move does with move_bot
submit_reports_success(s, team, bot_id, target_x, target_y, pick) ==
    LET c == consume_action(s, team, bot_id) IN
    IF ~c.ret THEN Ret(c.s, FALSE)
    ELSE IF ~safe_get_bot(c.s, team, bot_id) THEN Ret(c.s, FALSE)
    ELSE
    LET tgt == resolve_target_tile(c.s, team, bot_id, target_x, target_y) IN
    IF ~tgt.ok THEN Ret(c.s, FALSE)
    ELSE IF TargetTile(c.s, bot_id, tgt).kind # "SUBMIT" THEN Ret(c.s, FALSE)
    ELSE IF ~IsPlate(c.s.bots[bot_id].holding) THEN Ret(c.s, FALSE)
    ELSE IF c.s.bots[bot_id].holding.dirty THEN Ret(c.s, FALSE)
    ELSE Ret(submit_plate(c.s, bot_id, tgt.x, tgt.y, pick).s, TRUE)

\* submit that takes the plate out of the bot's hands before the store looks
\* for an order, and gives nothing back when there is none
submit_forfeits_plate(s, team, bot_id, target_x, target_y, pick) ==
    LET c == consume_action(s, team, bot_id) IN
    IF ~c.ret THEN Ret(c.s, FALSE)
    ELSE IF ~safe_get_bot(c.s, team, bot_id) THEN Ret(c.s, FALSE)
    ELSE
    LET tgt == resolve_target_tile(c.s, team, bot_id, target_x, target_y) IN
    IF ~tgt.ok THEN Ret(c.s, FALSE)
    ELSE IF TargetTile(c.s, bot_id, tgt).kind # "SUBMIT" THEN Ret(c.s, FALSE)
    ELSE IF ~IsPlate(c.s.bots[bot_id].holding) THEN Ret(c.s, FALSE)
    ELSE IF c.s.bots[bot_id].holding.dirty THEN Ret(c.s, FALSE)
    ELSE
    LET r == submit_plate(c.s, bot_id, tgt.x, tgt.y, pick) IN
    IF r.ret THEN r ELSE Ret(SetHolding(r.s, bot_id, NoItem), FALSE)

\* RobotController.submit
submit(s, team, bot_id, target_x, target_y, pick) ==
    LET c == consume_action(s, team, bot_id) IN
    IF ~c.ret THEN Ret(c.s, FALSE)
    ELSE IF ~safe_get_bot(c.s, team, bot_id) THEN Ret(c.s, FALSE)
    ELSE
    LET tgt == resolve_target_tile(c.s, team, bot_id, target_x, target_y) IN
    IF ~tgt.ok THEN Ret(c.s, FALSE)
    ELSE IF TargetTile(c.s, bot_id, tgt).kind # "SUBMIT" THEN Ret(c.s, FALSE)
    ELSE IF ~IsPlate(c.s.bots[bot_id].holding) THEN Ret(c.s, FALSE)
    ELSE IF c.s.bots[bot_id].holding.dirty THEN Ret(c.s, FALSE)
    ELSE submit_plate(c.s, bot_id, tgt.x, tgt.y, pick)

(***************************************************************************)
(* Mid-game switch                                                         *)
(***************************************************************************)
\* the cells of the map in scan order, the spawn cell first
SpawnOrder ==
    <<SpawnCell>> \o
    [i \in 1 .. Width * Height |-> <<(i - 1) % Width, (i - 1) \div Width>>]

\* the first cell of SpawnOrder, from index i on, that is walkable and free on
\* map_team; 0 if there is none
RECURSIVE FirstFree(_, _, _)
FirstFree(s, map_team, i) ==
    IF i > Len(SpawnOrder) THEN 0
    ELSE IF /\ is_walkable(s, map_team, SpawnOrder[i][1], SpawnOrder[i][2])
            /\ s.occupancy[map_team][SpawnOrder[i]] = NoBot
    THEN i
    ELSE FirstFree(s, map_team, i + 1)

\* teleports the bots ids (a set) one by one, lowest id first, onto map dest
RECURSIVE Teleport(_, _, _)
Teleport(s, ids, dest) ==
    IF ids = {} THEN Ret(s, TRUE)
    ELSE
    LET id == CHOOSE j \in ids : \A k \in ids : j <= k
        b == s.bots[id]
        i == FirstFree(s, dest, 1)
    IN  IF i = 0 THEN Ret(s, FALSE)
        ELSE Teleport(
               [s EXCEPT !.occupancy[b.map_team][<<b.x, b.y>>] = NoBot,
                         !.occupancy[dest][SpawnOrder[i]] = id,
                         !.bots[id].map_team = dest,
                         !.bots[id].x = SpawnOrder[i][1],
                         !.bots[id].y = SpawnOrder[i][2]],
               ids \ {id}, dest)

\* GameState.request_switch
request_switch(s, team) ==
    IF s.turn < SwitchTurn \/ s.turn > SwitchTurn + SwitchDuration - 1
    THEN Ret(s, FALSE)
    ELSE IF s.switched[team] THEN Ret(s, FALSE)
    ELSE
    LET r == Teleport(s, get_team_bot_ids(s, team), Enemy(team)) IN
    IF ~r.ret THEN Ret(s, FALSE)
    ELSE Ret([r.s EXCEPT !.switched[team] = TRUE], TRUE)

\* RobotController.get_switch_info: window_active
window_active(s) ==
    SwitchTurn <= s.turn /\ s.turn <= SwitchTurn + SwitchDuration - 1

\* RobotController.can_switch_maps
can_switch_maps(s, team) == window_active(s) /\ ~s.switched[team]

\* switch_maps charging every bot of the team its move of the turn
switch_maps_spends_moves(s, team) ==
    IF ~can_switch_maps(s, team) THEN Ret(s, FALSE)
    ELSE
    LET r == request_switch(s, team) IN
    Ret([r.s EXCEPT !.moves_left[team] =
                       [id \in BotIds |-> IF r.s.bots[id].team = team THEN 0 ELSE @[id]]],
        r.ret)

\* a switch that asks the store to move the other team
switch_maps_for_the_enemy(s, team) ==
    IF ~can_switch_maps(s, team) THEN Ret(s, FALSE)
    ELSE request_switch(s, Enemy(team))

\* RobotController.switch_maps
switch_maps(s, team) ==
    IF ~can_switch_maps(s, team) THEN Ret(s, FALSE)
    ELSE request_switch(s, team)

(***************************************************************************)
(* GameState.start_turn: the environmental tick                            *)
(***************************************************************************)
\* the cooked stage a cook_progress stands for
StageOf(progress) ==
    IF progress < COOK_PROGRESS THEN 0
    ELSE IF progress < BURN_PROGRESS THEN 1
    ELSE 2

\* a sink that finishes washing a plate in this tick
SinkFinishes(tile) ==
    /\ tile.kind = "SINK"
    /\ tile.using
    /\ tile.num_dirty_plates > 0
    /\ tile.curr_dirty_plate_progress + 1 >= PLATE_WASH_PROGRESS

\* one tile's tick; washed is the number of plates the map's sinks finished
TickTile(tile, washed) ==
    IF tile.kind = "COOKER" /\ IsPan(tile.item) /\ IsFood(tile.item.food)
    THEN [tile EXCEPT !.cook_progress = @ + 1,
                      !.item.food.cooked_stage = StageOf(tile.cook_progress + 1)]
    ELSE IF tile.kind = "SINK" /\ tile.using /\ tile.num_dirty_plates > 0
    THEN IF SinkFinishes(tile)
         THEN [tile EXCEPT !.num_dirty_plates = @ - 1,
                           !.curr_dirty_plate_progress = 0,
                           !.using = FALSE]
         ELSE [tile EXCEPT !.curr_dirty_plate_progress = @ + 1,
                           !.using = FALSE]
    ELSE IF tile.kind = "SINK"
    THEN [tile EXCEPT !.using = FALSE]
    ELSE IF tile.kind = "SINKTABLE"
    THEN [tile EXCEPT !.num_clean_plates = @ + washed]
    ELSE tile

\* a tick that credits BLUE only
start_turn_credits_blue_only(s) ==
    [s EXCEPT
        !.turn = @ + 1,
        !.team_money["BLUE"] = @ + MONEY_PER_TURN,
        !.tiles = [m \in Teams |->
                     LET washed == Cardinality({c \in Cells : SinkFinishes(s.tiles[m][c])})
                     IN  [c \in Cells |-> TickTile(s.tiles[m][c], washed)]]]

\* GameState.start_turn
start_turn(s) ==
    [s EXCEPT
        !.turn = @ + 1,
        !.team_money = [t \in Teams |-> @[t] + MONEY_PER_TURN],
        !.tiles = [m \in Teams |->
                     LET washed == Cardinality({c \in Cells : SinkFinishes(s.tiles[m][c])})
                     IN  [c \in Cells |-> TickTile(s.tiles[m][c], washed)]]]

(***************************************************************************)
(* The state machine                                                       *)
(***************************************************************************)

\* run_game's None: no winner
NoWinner == "NONE"

\* run_game has not returned yet
Running == "running"

\* export_replay has not been called yet
Unwritten == "unwritten"

\* no gateway call has been made since the scheduler last acted
NoCall ==
    [op |-> "none", bot |-> NoBot, ret |-> FALSE, far |-> FALSE,
     aim |-> "none", item |-> "none", budget |-> 0]

\* no move is between its validation and its move_bot
NoMove == [bot |-> NoBot, dx |-> 0, dy |-> 0]

\* the bot ids an agent may pass: every bot's, and one no bot has
BotInputs == BotIds \cup {UnknownBot}

\* the offsets of the targets an agent passes: the bot's cell, its 8
\* neighbours, and a cell out of reach
Offsets == ((-1 .. 1) \X (-1 .. 1)) \cup {<<2, 0>>}

\* the steps an agent may pass to move for bot_id: the 8 neighbours, (0,0) and
\* a long one; for a bot that is not its own, one step
Steps(team, bot_id) ==
    IF bot_id \in BotIds /\ bots[bot_id].team = team
    THEN Offsets
    ELSE {<<1, 0>>}

\* the targets an agent passes for bot_id: none, and the cells (in bounds or
\* not) at the offsets Offsets from the bot; for a bot that is not its own,
\* the cell (1, 1)
Targets(team, bot_id) ==
    IF bot_id \in BotIds /\ bots[bot_id].team = team
    THEN {<<Unspecified, Unspecified>>} \cup
         {<<bots[bot_id].x + d[1], bots[bot_id].y + d[2]>> : d \in Offsets}
    ELSE {<<1, 1>>}

\* a call without a target
NoTarget == <<Unspecified, Unspecified>>

\* the orders the store's tie-break may prefer when bot_id submits: those the
\* plate it holds matches, if any
Picks(team, bot_id) ==
    IF bot_id \in BotIds /\ bots[bot_id].team = team /\ IsPlate(bots[bot_id].holding)
    THEN LET matching == MatchingOrders(World, team, bot_id, bots[bot_id].holding)
         IN  IF matching = {} THEN {1} ELSE matching
    ELSE {1}

MoveOps == {"move"}
ActionOps == {"pickup", "place", "trash", "buy", "chop", "start_cook",
              "take_from_pan", "take_clean_plate", "put_dirty_plate_in_sink",
              "wash_sink", "add_food_to_plate", "submit"}

\* Game.__init__: the counter an order spawned later takes its id from, one
\* above the largest id of the order list it is given (0 when it is empty)
id_after(os) ==
    LET ids == {0} \cup {os[i].order_id : i \in 1 .. Len(os)} IN
    (CHOOSE m \in ids : \A i \in ids : i <= m) + 1

\* Game.__init__: the state in which run_game starts, on the maps given,
\* with the loader's order lists os, where the agents of the teams in f
\* failed to construct
InitLoaded(red_map, blue_map, limit, f, os) ==
    /\ failed_init = f
    /\ turn = 0
    /\ bots = [id \in BotIds |->
                 [team |-> TeamOf(id), map_team |-> TeamOf(id),
                  x |-> SpawnCell[1], y |-> SpawnCell[2], holding |-> NoItem]]
    /\ occupancy = [m \in Teams |-> [c \in Cells |->
                      IF c = SpawnCell
                      THEN CHOOSE id \in BotIds : TeamOf(id) = m
                      ELSE NoBot]]
    /\ tiles = [m \in Teams |-> IF m = "RED" THEN red_map ELSE blue_map]
    /\ team_money = [t \in Teams |-> 0]
    /\ orders = os
    /\ next_order_id = id_after(os["RED"])
    /\ switched = [t \in Teams |-> FALSE]
    /\ last_seen_turn = [t \in Teams |-> 0]
    /\ moves_left = [t \in Teams |-> [id \in BotIds |-> 0]]
    /\ actions_left = [t \in Teams |-> [id \in BotIds |-> 0]]
    /\ turn_limit = limit
    /\ phase = "tick"
    /\ abandoned = {}
    /\ failed = {}
    /\ replay = 0
    /\ replay_winner = Unwritten
    /\ result = Running
    /\ inflight = NoMove
    /\ moved = {}
    /\ acted = {}
    /\ ticks_in_pan = [m \in Teams |-> [c \in Cells |-> None]]
    /\ last = NoCall

\* Game.__init__ with the order lists of the kitchen
InitWith(red_map, blue_map, limit, f) ==
    InitLoaded(red_map, blue_map, limit, f, InitOrders)

\* Game.__init__ where both agents construct
InitOn(red_map, blue_map, limit) == InitWith(red_map, blue_map, limit, {})

\* a match in the stocked kitchen (BLUE's map; RED's is a bare room)
Init == InitOn(Room, StockedKitchen, KitchenTurns)

\* a match in two bare rooms
InitArena == InitOn(Room, Room, MaxTurn)

\* the world after a call
Apply(s) ==
    /\ turn' = s.turn
    /\ bots' = s.bots
    /\ occupancy' = s.occupancy
    /\ tiles' = s.tiles
    /\ team_money' = s.team_money
    /\ orders' = s.orders
    /\ switched' = s.switched
    /\ last_seen_turn' = s.last_seen_turn
    /\ moves_left' = s.moves_left
    /\ actions_left' = s.actions_left

\* the budget a call of kind op finds for bot_id, after the lazy refresh
BudgetBefore(team, op, bot_id) ==
    IF op \in MoveOps
    THEN DictGet(ensure_turn(World, team).moves_left[team], bot_id)
    ELSE IF op \in ActionOps
    THEN DictGet(ensure_turn(World, team).actions_left[team], bot_id)
    ELSE 0

\* the caller passes both coordinates of a target, and the target is more
\* than one cell away from its bot in x or in y
IsFar(team, bot_id, target_x, target_y) ==
    /\ bot_id \in BotIds
    /\ bots[bot_id].team = team
    /\ target_x # Unspecified
    /\ target_y # Unspecified
    /\ \/ Abs(bots[bot_id].x - target_x) > 1
       \/ Abs(bots[bot_id].y - target_y) > 1

\* the kind of the tile a call of team for bot_id with target t is aimed at:
\* "none" where the target does not resolve to a tile
Aim(team, bot_id, t) ==
    LET tgt == resolve_target_tile(World, team, bot_id, t[1], t[2]) IN
    IF tgt.ok THEN TargetTile(World, bot_id, tgt).kind ELSE "none"

\* the call a move or switch_maps leaves in last
Untargeted(team, op, bot_id, r) ==
    [op |-> op, bot |-> bot_id, ret |-> r.ret, far |-> FALSE, aim |-> "none",
     item |-> "none", budget |-> BudgetBefore(team, op, bot_id)]

\* the pans' clocks after a call of kind op with result r: a pan that a
\* successful start_cook has put raw food into starts at 0, a tile the call
\* left alone keeps its clock, and any other change to a tile stops it
PanClockAfter(op, r) ==
    [m \in Teams |-> [c \in Cells |->
        IF r.s.tiles[m][c] = tiles[m][c] THEN ticks_in_pan[m][c]
        ELSE IF /\ op = "start_cook"
                /\ r.ret
                /\ r.s.tiles[m][c].item.food.cooked_stage = 0
        THEN 0
        ELSE None]]

\* team's agent, inside its callback, makes one gateway call with target t
\* (and item, for buy) whose result is r
Call(team, op, bot_id, t, item, r) ==
    /\ phase = team
    /\ team \notin failed_init
    /\ last.op = "none"
    /\ Apply(r.s)
    /\ last' = IF op \in ActionOps
               THEN [op |-> op, bot |-> bot_id, ret |-> r.ret,
                     far |-> IsFar(team, bot_id, t[1], t[2]),
                     aim |-> Aim(team, bot_id, t), item |-> item,
                     budget |-> BudgetBefore(team, op, bot_id)]
               ELSE Untargeted(team, op, bot_id, r)
    /\ moved' = IF op \in MoveOps /\ r.ret THEN moved \cup {bot_id} ELSE moved
    /\ acted' = IF op \in ActionOps /\ bot_id \in BotIds /\ bots[bot_id].team = team
                THEN acted \cup {bot_id}
                ELSE acted
    /\ ticks_in_pan' = PanClockAfter(op, r)
    /\ UNCHANGED <<phase, turn_limit, failed_init, next_order_id, abandoned, failed, replay, replay_winner,
                   result, inflight>>

Move(T) ==
    \E team \in T, bot_id \in BotInputs : \E d \in Steps(team, bot_id) :
        Call(team, "move", bot_id, NoTarget, "none", move(World, team, bot_id, d[1], d[2]))

Pickup(T) ==
    \E team \in T, bot_id \in BotInputs : \E t \in Targets(team, bot_id) :
        Call(team, "pickup", bot_id, t, "none",
             pickup(World, team, bot_id, t[1], t[2]))

Place(T) ==
    \E team \in T, bot_id \in BotInputs : \E t \in Targets(team, bot_id) :
        Call(team, "place", bot_id, t, "none",
             place(World, team, bot_id, t[1], t[2]))

Trash(T) ==
    \E team \in T, bot_id \in BotInputs : \E t \in Targets(team, bot_id) :
        Call(team, "trash", bot_id, t, "none",
             trash(World, team, bot_id, t[1], t[2]))

Buy(T) ==
    \E team \in T, bot_id \in BotInputs, item \in Buyables : \E t \in Targets(team, bot_id) :
        Call(team, "buy", bot_id, t, item,
             buy(World, team, bot_id, item, t[1], t[2]))

Chop(T) ==
    \E team \in T, bot_id \in BotInputs : \E t \in Targets(team, bot_id) :
        Call(team, "chop", bot_id, t, "none",
             chop(World, team, bot_id, t[1], t[2]))

StartCook(T) ==
    \E team \in T, bot_id \in BotInputs : \E t \in Targets(team, bot_id) :
        Call(team, "start_cook", bot_id, t, "none",
             start_cook(World, team, bot_id, t[1], t[2]))

TakeFromPan(T) ==
    \E team \in T, bot_id \in BotInputs : \E t \in Targets(team, bot_id) :
        Call(team, "take_from_pan", bot_id, t, "none",
             take_from_pan(World, team, bot_id, t[1], t[2]))

TakeCleanPlate(T) ==
    \E team \in T, bot_id \in BotInputs : \E t \in Targets(team, bot_id) :
        Call(team, "take_clean_plate", bot_id, t, "none",
             take_clean_plate(World, team, bot_id, t[1], t[2]))

PutDirtyPlateInSink(T) ==
    \E team \in T, bot_id \in BotInputs : \E t \in Targets(team, bot_id) :
        Call(team, "put_dirty_plate_in_sink", bot_id, t, "none",
             put_dirty_plate_in_sink(World, team, bot_id, t[1], t[2]))

WashSink(T) ==
    \E team \in T, bot_id \in BotInputs : \E t \in Targets(team, bot_id) :
        Call(team, "wash_sink", bot_id, t, "none",
             wash_sink(World, team, bot_id, t[1], t[2]))

AddFoodToPlate(T) ==
    \E team \in T, bot_id \in BotInputs : \E t \in Targets(team, bot_id) :
        Call(team, "add_food_to_plate", bot_id, t, "none",
             add_food_to_plate(World, team, bot_id, t[1], t[2]))

Submit(T) ==
    \E team \in T, bot_id \in BotInputs :
    \E t \in Targets(team, bot_id), pick \in Picks(team, bot_id) :
        Call(team, "submit", bot_id, t, "none",
             submit(World, team, bot_id, t[1], t[2], pick))

SwitchMaps(T) ==
    \E team \in T :
        Call(team, "switch_maps", NoBot, NoTarget, "none", switch_maps(World, team))

\* Game.run_game: the tick that opens a turn; BLUE's callback follows
StartTurn ==
    /\ phase = "tick"
    /\ last.op = "none"
    /\ failed_init # Teams
    /\ turn < turn_limit
    /\ Apply(start_turn(World))
    /\ phase' = "BLUE"
    /\ moved' = {}
    /\ acted' = {}
    /\ ticks_in_pan' = [m \in Teams |-> [c \in Cells |->
                           IF ticks_in_pan[m][c] = None THEN None
                           ELSE ticks_in_pan[m][c] + 1]]
    /\ last' = NoCall
    /\ failed' = {}
    /\ UNCHANGED <<turn_limit, failed_init, next_order_id, abandoned, replay, replay_winner, result, inflight>>

(***************************************************************************)
(* The observation API.  A value handed out is the value and the object   *)
(* of the store it is (alias), if it is one: writing to it writes there.  *)
(***************************************************************************)
NoAlias == <<"none">>

\* None where a value was asked for
NoValue == [type |-> "None"]

Returned(alias, value) == [alias |-> alias, value |-> value, none |-> FALSE]

\* None handed out
ReturnedNone == [alias |-> NoAlias, value |-> NoValue, none |-> TRUE]

\* GameState.get_tile: the tile of the map (the handlers write to it); the
\* lookup fails out of bounds
store_get_tile(s, team, x, y) ==
    Returned(<<"tile", team, <<x, y>> >>, s.tiles[team][<<x, y>>])

\* GameState.get_map: the map of the store
store_get_map(s, team) == Returned(<<"map", team>>, s.tiles[team])

\* copy.deepcopy: an object of its own with the same value
deepcopy(v) == Returned(NoAlias, v.value)

\* RobotController.get_map
get_map(s, team) == deepcopy(store_get_map(s, team))

\* a get_tile that hands out the tile of the store
get_tile_by_reference(s, team, x, y) ==
    IF in_bounds(x, y) THEN store_get_tile(s, team, x, y)
    ELSE ReturnedNone

\* RobotController.get_tile
get_tile(s, team, x, y) ==
    IF in_bounds(x, y) THEN deepcopy(store_get_tile(s, team, x, y))
    ELSE ReturnedNone

\* RobotController.get_orders: a new list of new dictionaries
get_orders(s, team) ==
    Returned(NoAlias,
             [i \in 1 .. Len(s.orders[team]) |->
                 LET o == s.orders[team][i] IN
                 [order_id |-> o.order_id, required |-> o.required,
                  created_turn |-> o.created_turn,
                  expires_turn |-> o.expires_turn, reward |-> o.reward,
                  penalty |-> o.penalty, claimed_by |-> o.claimed_by,
                  completed_turn |-> o.completed_turn,
                  is_active |-> is_active(o, s.turn)]])

\* RobotController.item_to_public_dict (None for no item)
item_to_public_dict(it) ==
    IF it = NoItem THEN [type |-> "None"]
    ELSE IF IsFood(it) THEN it
    ELSE IF IsPlate(it) THEN [type |-> "Plate", dirty |-> it.dirty, food |-> it.food]
    ELSE [type |-> "Pan",
          food |-> IF it.food = NoItem THEN [type |-> "None"] ELSE it.food]

\* RobotController.get_bot_state: a new dictionary, None for an unknown id
get_bot_state(s, bot_id) ==
    IF bot_id \notin BotIds THEN ReturnedNone
    ELSE LET b == s.bots[bot_id] IN
         Returned(NoAlias,
                  [bot_id |-> bot_id, team |-> b.team, x |-> b.x, y |-> b.y,
                   team_money |-> get_team_money(s, b.team),
                   holding |-> item_to_public_dict(b.holding),
                   map_team |-> b.map_team])

ObserveOps == {"get_map", "get_tile", "get_orders", "get_bot_state"}

\* the coordinates an agent asks get_tile for: the cells and one outside
Lookups == Cells \cup {<<Width, 0>>}

\* the agent reads the world
Observe(T) ==
    \E team \in T :
        /\ phase = team
        /\ team \notin failed_init
        /\ last.op = "none"
        /\ \E op \in ObserveOps :
              \E r \in (IF op = "get_map" THEN {get_map(World, m) : m \in Teams}
                        ELSE IF op = "get_tile"
                        THEN {get_tile(World, m, c[1], c[2]) : m \in Teams, c \in Lookups}
                        ELSE IF op = "get_orders"
                        THEN {get_orders(World, m) : m \in Teams}
                        ELSE {get_bot_state(World, id) : id \in BotInputs}) :
                  last' = [NoCall EXCEPT !.op = op, !.ret = r]
        /\ UNCHANGED <<turn, bots, occupancy, tiles, team_money, orders, switched,
                       last_seen_turn, moves_left, actions_left, turn_limit,
                       failed_init, next_order_id, phase, abandoned, failed, replay,
                       replay_winner, result, inflight, moved, acted, ticks_in_pan>>

\* what an agent may turn a value it was handed into
Mutations(op, v) ==
    IF op = "get_tile"
    THEN {EmptyTile("FLOOR")} \cup
         (IF HasItemSlot(v)
          THEN {[v EXCEPT !.item = NoItem], [v EXCEPT !.item = Food("EGG", TRUE, 1)]}
          ELSE {})
    ELSE IF op = "get_map"
    THEN {[v EXCEPT ![c] = EmptyTile("FLOOR")] : c \in {<<0, 0>>, <<1, 2>>}}
    ELSE IF op = "get_orders"
    THEN IF Len(v) = 0 THEN {}
         ELSE {[v EXCEPT ![1].completed_turn = 0], [v EXCEPT ![1].reward = 99],
               Tail(v)}
    ELSE {[v EXCEPT !.x = 0], [v EXCEPT !.team_money = 99],
          [v EXCEPT !.holding = [type |-> "None"]]}

\* a write to an object: it reaches the store when the object is the store's
write(s, alias, v) ==
    IF alias[1] = "tile" THEN SetTile(s, alias[2], alias[3], v)
    ELSE IF alias[1] = "map" THEN [s EXCEPT !.tiles[alias[2]] = v]
    ELSE s

\* the agent changes the value it was handed
Mutate ==
    /\ last.op \in ObserveOps
    /\ ~last.ret.none
    /\ \E v \in Mutations(last.op, last.ret.value) :
          /\ v # last.ret.value
          /\ Apply(write(World, last.ret.alias, v))
          /\ last' = [last EXCEPT !.op = "mutate", !.item = last.op,
                                  !.ret = Returned(last.ret.alias, v)]
    /\ UNCHANGED <<turn_limit, failed_init, next_order_id, phase, abandoned, failed,
                   replay, replay_winner, result, inflight, moved, acted,
                   ticks_in_pan>>

\* the call just made returns into the agent's code
Return ==
    /\ last.op # "none"
    /\ last' = NoCall
    /\ UNCHANGED <<turn, bots, occupancy, tiles, team_money, orders, switched,
                   last_seen_turn, moves_left, actions_left, turn_limit, failed_init, next_order_id,
                   phase, abandoned, failed, replay, replay_winner, result,
                   inflight, moved, acted, ticks_in_pan>>

\* Game.call_player: a callback returns in time; RED's follows BLUE's, and the
\* next turn follows RED's
EndCallback ==
    /\ phase \in Teams
    /\ phase \notin failed_init
    /\ last.op = "none"
    /\ phase' = IF phase = "BLUE" THEN "RED" ELSE "record"
    /\ last' = NoCall
    /\ UNCHANGED <<turn, bots, occupancy, tiles, team_money, orders, switched,
                   last_seen_turn, moves_left, actions_left, turn_limit, failed_init, next_order_id,
                   abandoned, failed, replay, replay_winner, result, inflight,
                   moved, acted, ticks_in_pan>>

\* call_player for a team that failed to construct, returning True
SkipCallbackQuietly ==
    /\ phase \in failed_init
    /\ last.op = "none"
    /\ phase' = IF phase = "BLUE" THEN "RED" ELSE "record"
    /\ last' = NoCall
    /\ UNCHANGED <<turn, bots, occupancy, tiles, team_money, orders, switched,
                   last_seen_turn, moves_left, actions_left, turn_limit,
                   failed_init, next_order_id, abandoned, failed, replay, replay_winner,
                   result, inflight, moved, acted, ticks_in_pan>>

\* Game.call_player for a team whose agent failed to construct: it returns
\* False without calling play_turn
SkipCallback ==
    /\ phase \in failed_init
    /\ last.op = "none"
    /\ failed' = failed \cup {phase}
    /\ phase' = IF phase = "BLUE" THEN "RED" ELSE "record"
    /\ last' = NoCall
    /\ UNCHANGED <<turn, bots, occupancy, tiles, team_money, orders, switched,
                   last_seen_turn, moves_left, actions_left, turn_limit,
                   failed_init, next_order_id, abandoned, replay, replay_winner, result,
                   inflight, moved, acted, ticks_in_pan>>

\* Game.run_game where both agents failed to construct: it returns None at
\* once
NoPlayers ==
    /\ phase = "tick"
    /\ failed_init = Teams
    /\ result' = NoWinner
    /\ phase' = "over"
    /\ UNCHANGED <<turn, bots, occupancy, tiles, team_money, orders, switched,
                   last_seen_turn, moves_left, actions_left, turn_limit,
                   failed_init, next_order_id, abandoned, failed, replay, replay_winner,
                   inflight, moved, acted, ticks_in_pan, last>>

\* Game.call_player: the callback raises; call_player returns False
Throw ==
    /\ phase \in Teams
    /\ phase \notin failed_init
    /\ last.op = "none"
    /\ failed' = failed \cup {phase}
    /\ phase' = IF phase = "BLUE" THEN "RED" ELSE "record"
    /\ last' = NoCall
    /\ UNCHANGED <<turn, bots, occupancy, tiles, team_money, orders, switched,
                   last_seen_turn, moves_left, actions_left, turn_limit, failed_init, next_order_id,
                   abandoned, replay, replay_winner, result, inflight, moved,
                   acted, ticks_in_pan>>

\* a join without a timeout: while the callback runs, run_game waits
JoinWithoutTimeout ==
    /\ phase \in Teams
    /\ phase \notin failed_init
    /\ last.op = "none"
    /\ UNCHANGED vars

\* Game.call_player: the join on the worker thread times out. The thread is
\* left running and call_player returns False
Timeout ==
    /\ phase \in Teams
    /\ phase \notin failed_init
    /\ last.op = "none"
    /\ abandoned' = abandoned \cup {phase}
    /\ failed' = failed \cup {phase}
    /\ phase' = IF phase = "BLUE" THEN "RED" ELSE "record"
    /\ last' = NoCall
    /\ UNCHANGED <<turn, bots, occupancy, tiles, team_money, orders, switched,
                   last_seen_turn, moves_left, actions_left, turn_limit, failed_init, next_order_id,
                   replay, replay_winner, result, inflight, moved, acted,
                   ticks_in_pan>>

\* the team that failed alone is given the match
forfeit_goes_to_failer(f) ==
    IF f = {"BLUE"} THEN "BLUE"
    ELSE IF f = {"RED"} THEN "RED"
    ELSE NoWinner

\* Game.run_game: who wins a turn in which the callbacks of the teams in f
\* failed
forfeit_winner(f) ==
    IF f = {"BLUE"} THEN "RED"
    ELSE IF f = {"RED"} THEN "BLUE"
    ELSE NoWinner

\* a snapshot after which the match goes on whether a callback failed or not
RecordTurnPlaysOn ==
    /\ phase = "record"
    /\ last.op = "none"
    /\ replay' = replay + 1
    /\ phase' = "tick"
    /\ last' = NoCall
    /\ UNCHANGED <<turn, bots, occupancy, tiles, team_money, orders, switched,
                   last_seen_turn, moves_left, actions_left, turn_limit, failed_init, next_order_id,
                   abandoned, failed, replay_winner, result, inflight, moved,
                   acted, ticks_in_pan>>

\* Game.run_game: the snapshot that closes a turn, and the end of the match
\* where a callback of the turn failed
RecordTurn ==
    /\ phase = "record"
    /\ last.op = "none"
    /\ replay' = replay + 1
    /\ IF failed # {}
       THEN /\ replay_winner' = forfeit_winner(failed)
            /\ result' = forfeit_winner(failed)
            /\ phase' = "over"
       ELSE /\ phase' = "tick"
            /\ UNCHANGED <<replay_winner, result>>
    /\ last' = NoCall
    /\ UNCHANGED <<turn, bots, occupancy, tiles, team_money, orders, switched,
                   last_seen_turn, moves_left, actions_left, turn_limit, failed_init, next_order_id,
                   abandoned, failed, inflight, moved, acted, ticks_in_pan>>

\* the winner by money, where BLUE wins a tie
money_winner_ties_to_blue(s) ==
    IF s.team_money["RED"] > s.team_money["BLUE"] THEN "RED" ELSE "BLUE"

\* Game.run_game: the winner by money
money_winner(s) ==
    IF s.team_money["RED"] > s.team_money["BLUE"] THEN "RED"
    ELSE IF s.team_money["BLUE"] > s.team_money["RED"] THEN "BLUE"
    ELSE NoWinner

\* Game.run_game: the turn limit is reached; the winner by money goes into
\* the replay and run_game returns None
GameOver ==
    /\ phase = "tick"
    /\ last.op = "none"
    /\ turn >= turn_limit
    /\ replay_winner' = money_winner(World)
    /\ result' = NoWinner
    /\ phase' = "over"
    /\ last' = NoCall
    /\ UNCHANGED <<turn, bots, occupancy, tiles, team_money, orders, switched,
                   last_seen_turn, moves_left, actions_left, turn_limit, failed_init, next_order_id,
                   abandoned, failed, replay, inflight, moved, acted,
                   ticks_in_pan>>

\* an abandoned worker calls move and runs it up to the call of move_bot;
\* where move returns False before that, the call is over
WorkerValidates ==
    \E team \in abandoned, bot_id \in BotInputs : \E d \in Steps(team, bot_id) :
        LET v == move_validate(World, team, bot_id, d[1], d[2]) IN
        /\ last.op = "none"
        /\ inflight = NoMove
        /\ Apply(v.s)
        /\ inflight' = IF v.ret
                       THEN [bot |-> bot_id, dx |-> d[1], dy |-> d[2]]
                       ELSE NoMove
        /\ last' = IF v.ret THEN NoCall ELSE Untargeted(team, "move", bot_id, v)
        /\ UNCHANGED <<phase, turn_limit, failed_init, next_order_id, abandoned, failed, replay,
                       replay_winner, result, moved, acted, ticks_in_pan>>

\* the abandoned worker's move goes on: move_bot, then move returns
WorkerApplies ==
    /\ last.op = "none"
    /\ inflight # NoMove
    /\ LET r == move_commit(World, inflight.bot, inflight.dx, inflight.dy) IN
        /\ Apply(r.s)
        /\ last' = [Untargeted(TeamOf(inflight.bot), "move", inflight.bot, r)
                        EXCEPT !.budget = 1]
        /\ moved' = IF r.ret THEN moved \cup {inflight.bot} ELSE moved
    /\ inflight' = NoMove
    /\ UNCHANGED <<phase, turn_limit, failed_init, next_order_id, abandoned, failed, replay, replay_winner,
                   result, acted, ticks_in_pan>>

\* the match in the kitchen: BLUE's agent makes every call, RED's agent makes
\* none
Next ==
    \/ StartTurn
    \/ EndCallback
    \/ RecordTurn
    \/ GameOver
    \/ Return
    \/ Move({"BLUE"})
    \/ Pickup({"BLUE"})
    \/ Place({"BLUE"})
    \/ Trash({"BLUE"})
    \/ Buy({"BLUE"})
    \/ Chop({"BLUE"})
    \/ StartCook({"BLUE"})
    \/ TakeFromPan({"BLUE"})
    \/ TakeCleanPlate({"BLUE"})
    \/ PutDirtyPlateInSink({"BLUE"})
    \/ WashSink({"BLUE"})
    \/ AddFoodToPlate({"BLUE"})
    \/ Submit({"BLUE"})
    \/ SwitchMaps({"BLUE"})
    \/ Throw
    \/ Timeout

Spec == Init /\ [][Next]_vars

\* the match in the bare rooms: both agents move, pick up and switch maps
NextArena ==
    \/ StartTurn
    \/ EndCallback
    \/ RecordTurn
    \/ GameOver
    \/ Return
    \/ Move(Teams)
    \/ Pickup(Teams)
    \/ SwitchMaps(Teams)

SpecArena == InitArena /\ [][NextArena]_vars

\* the match in the bare rooms where a callback may time out and its worker
\* thread go on moving beside the scheduler and the other agent
NextRace ==
    \/ StartTurn
    \/ EndCallback
    \/ RecordTurn
    \/ GameOver
    \/ Return
    \/ Move(Teams)
    \/ SwitchMaps(Teams)
    \/ Throw
    \/ Timeout
    \/ WorkerValidates
    \/ WorkerApplies

SpecRace == InitArena /\ [][NextRace]_vars

\* the states food of one name can be in: chopped only where it can be
\* chopped, cooked only where it can be cooked
FoodsOf(n) ==
    {Food(n, ch, st) :
        ch \in (IF FoodType[n].can_chop THEN BOOLEAN ELSE {FALSE}),
        st \in (IF FoodType[n].can_cook THEN 0 .. 2 ELSE {0})}

\* the items a bot may be holding, or a box storing, in mid-game
Stackables ==
    FoodsOf("MEAT") \cup FoodsOf("ONIONS") \cup FoodsOf("EGG") \cup
    {Plate(<<>>, FALSE), Plate(<<>>, TRUE),
     Plate(<<Food("MEAT", FALSE, 0)>>, FALSE),
     Plate(<<Food("MEAT", TRUE, 0)>>, FALSE),
     Plate(<<Food("MEAT", FALSE, 0), Food("ONIONS", FALSE, 0)>>, FALSE),
     Plate(<<Food("ONIONS", FALSE, 0), Food("MEAT", FALSE, 0)>>, FALSE),
     Pan(NoItem), Pan(Food("MEAT", FALSE, 0)), Pan(Food("MEAT", FALSE, 1))}

\* the turn of the state in mid-game: food has had the time to burn
MidGame == BURN_PROGRESS + 3

\* the kitchen whose box stores n units of stored
BoxKitchen(stored, n) ==
    [c \in Cells |->
        LET k == KindAt(KitchenLayout, c) IN
        IF k = "BOX" THEN [EmptyTile(k) EXCEPT !.item = stored, !.count = n]
        ELSE EmptyTile(k)]

\* a match in mid-game, between two turns, with turns more to play: BLUE's
\* bot stands on its spawn cell of blue_map with held in its hand
InitMidGame(blue_map, held, turns) ==
    /\ turn = MidGame
    /\ bots = [id \in BotIds |->
                 [team |-> TeamOf(id), map_team |-> TeamOf(id),
                  x |-> SpawnCell[1], y |-> SpawnCell[2],
                  holding |-> IF TeamOf(id) = "BLUE" THEN held ELSE NoItem]]
    /\ occupancy = [m \in Teams |-> [c \in Cells |->
                      IF c = SpawnCell
                      THEN CHOOSE id \in BotIds : TeamOf(id) = m
                      ELSE NoBot]]
    /\ tiles = [m \in Teams |-> IF m = "RED" THEN Room ELSE blue_map]
    /\ team_money = [t \in Teams |-> 0]
    /\ orders = InitOrders
    /\ next_order_id = id_after(InitOrders["RED"])
    /\ switched = [t \in Teams |-> FALSE]
    /\ last_seen_turn = [t \in Teams |-> MidGame]
    /\ moves_left = [t \in Teams |-> [id \in BotIds |-> 0]]
    /\ actions_left = [t \in Teams |-> [id \in BotIds |-> 0]]
    /\ turn_limit = MidGame + turns
    /\ failed_init = {}
    /\ phase = "tick"
    /\ abandoned = {}
    /\ failed = {}
    /\ replay = MidGame
    /\ replay_winner = Unwritten
    /\ result = Running
    /\ inflight = NoMove
    /\ moved = {}
    /\ acted = {}
    /\ ticks_in_pan = [m \in Teams |-> [c \in Cells |-> None]]
    /\ last = NoCall

\* a match in mid-game: BLUE's bot stands at the box with an item in its
\* hand, the box stores one or two units of an item
InitBox ==
    \E held \in Stackables, stored \in Stackables, n \in 1 .. 2 :
        InitMidGame(BoxKitchen(stored, n), held, BoxTurns)

\* the states a cooker can be in: bare with the cook_progress a pan that was
\* picked up has left, with an empty pan, or with a pan of meat that has
\* cooked for some ticks
CookerStates ==
    {[kind |-> "COOKER", item |-> NoItem, cook_progress |-> p] :
        p \in {0, COOK_PROGRESS - 2, BURN_PROGRESS}} \cup
    {[kind |-> "COOKER", item |-> Pan(NoItem), cook_progress |-> 0]} \cup
    {[kind |-> "COOKER", item |-> Pan(Food("MEAT", FALSE, StageOf(p))),
      cook_progress |-> p] :
        p \in {0, COOK_PROGRESS - 2, COOK_PROGRESS, BURN_PROGRESS - 2,
               BURN_PROGRESS}}

\* the items BLUE's bot may be holding at the cooker
StoveItems ==
    {NoItem} \cup FoodsOf("MEAT") \cup FoodsOf("ONIONS") \cup
    {Pan(NoItem), Plate(<<>>, FALSE)} \cup
    {Pan(Food("MEAT", FALSE, st)) : st \in 0 .. 2}

\* the kitchen with its cooker in the state given
StoveKitchen(cooker) ==
    [c \in Cells |->
        LET k == KindAt(KitchenLayout, c) IN
        IF k = "COOKER" THEN cooker ELSE EmptyTile(k)]

\* a match in mid-game at the cooker
InitStove ==
    \E held \in StoveItems, cooker \in CookerStates :
        InitMidGame(StoveKitchen(cooker), held, StoveTurns)

\* the match at the cooker in mid-game: BLUE's agent picks up, places, cooks
\* and takes from the pan
NextStove ==
    \/ StartTurn
    \/ EndCallback
    \/ RecordTurn
    \/ GameOver
    \/ Return
    \/ Pickup({"BLUE"})
    \/ Place({"BLUE"})
    \/ StartCook({"BLUE"})
    \/ TakeFromPan({"BLUE"})

SpecStove == InitStove /\ [][NextStove]_vars

\* a short match in the stocked kitchen
InitObserve == InitOn(Room, StockedKitchen, ObserveTurns)

\* the match of an agent that reads the world, writes to what it was handed
\* and goes on calling its gateway
NextObserve ==
    \/ StartTurn
    \/ EndCallback
    \/ RecordTurn
    \/ GameOver
    \/ Return
    \/ Observe({"BLUE"})
    \/ Mutate
    \/ Move({"BLUE"})
    \/ Pickup({"BLUE"})
    \/ Place({"BLUE"})

SpecObserve == InitObserve /\ [][NextObserve]_vars

\* a match in mid-game at the box: BLUE's bot holds nothing, a plate or a
\* food, the box stores one or two foods or plates
InitPlate ==
    \E held \in {NoItem, Plate(<<>>, FALSE), Plate(<<>>, TRUE),
                  Food("MEAT", FALSE, 0)},
       stored \in {Food("MEAT", FALSE, 0), Plate(<<>>, FALSE),
                    Plate(<<Food("ONIONS", FALSE, 0)>>, FALSE)},
       n \in 1 .. 2 :
        InitMidGame(BoxKitchen(stored, n), held, PlateTurns)

\* the match at the box in mid-game: BLUE's agent picks up, places and plates
NextPlate ==
    \/ StartTurn
    \/ EndCallback
    \/ RecordTurn
    \/ GameOver
    \/ Return
    \/ Pickup({"BLUE"})
    \/ Place({"BLUE"})
    \/ AddFoodToPlate({"BLUE"})

SpecPlate == InitPlate /\ [][NextPlate]_vars

(***************************************************************************)
(* RobotController: the read-only predicates                               *)
(***************************************************************************)
\* RobotController.can_move
can_move(s, team, bot_id, dx, dy) ==
    IF ~safe_get_bot(s, team, bot_id) THEN FALSE
    ELSE IF Max(Abs(dx), Abs(dy)) > 1 \/ (dx = 0 /\ dy = 0) THEN FALSE
    ELSE LET b == s.bots[bot_id] IN
         can_move_internal(s, b.map_team, b.x, b.y, dx, dy)

\* a can_buy that does not look at the team's money
can_buy_on_credit(s, team, bot_id, item, target_x, target_y) ==
    IF ~safe_get_bot(s, team, bot_id) THEN FALSE
    ELSE
    LET tgt == resolve_target_tile(s, team, bot_id, target_x, target_y) IN
    IF ~tgt.ok THEN FALSE
    ELSE IF TargetTile(s, bot_id, tgt).kind # "SHOP" THEN FALSE
    ELSE IF ~IsNone(s.bots[bot_id].holding) THEN FALSE
    ELSE shop_has_item(TargetTile(s, bot_id, tgt), item)

\* RobotController.can_buy
can_buy(s, team, bot_id, item, target_x, target_y) ==
    IF ~safe_get_bot(s, team, bot_id) THEN FALSE
    ELSE
    LET tgt == resolve_target_tile(s, team, bot_id, target_x, target_y) IN
    IF ~tgt.ok THEN FALSE
    ELSE IF TargetTile(s, bot_id, tgt).kind # "SHOP" THEN FALSE
    ELSE IF ~IsNone(s.bots[bot_id].holding) THEN FALSE
    ELSE IF ~shop_has_item(TargetTile(s, bot_id, tgt), item) THEN FALSE
    ELSE get_team_money(s, team) >= buyable_cost(item)

\* RobotController.can_start_cook
can_start_cook(s, team, bot_id, target_x, target_y) ==
    IF ~safe_get_bot(s, team, bot_id) THEN FALSE
    ELSE
    LET tgt == resolve_target_tile(s, team, bot_id, target_x, target_y) IN
    IF ~tgt.ok THEN FALSE
    ELSE
    LET tile == TargetTile(s, bot_id, tgt)
        holding == s.bots[bot_id].holding
    IN  IF tile.kind # "COOKER" THEN FALSE
        ELSE IF ~IsPan(tile.item) \/ ~IsNone(tile.item.food) THEN FALSE
        ELSE IsFood(holding) /\ FoodType[holding.food_name].can_cook

\* a short match in a bare room and the stocked kitchen
InitAsk == InitOn(Room, StockedKitchen, AskTurns)

\* the match of agents that move, pick up, buy and cook
NextAsk ==
    \/ StartTurn
    \/ EndCallback
    \/ RecordTurn
    \/ GameOver
    \/ Return
    \/ Move(Teams)
    \/ Pickup({"BLUE"})
    \/ Buy({"BLUE"})
    \/ StartCook({"BLUE"})

SpecAsk == InitAsk /\ [][NextAsk]_vars

\* a match in the bare rooms in which any of the agents may have failed to
\* build
InitMatch == \E f \in SUBSET Teams : InitWith(Room, Room, MatchTurns, f)

\* run_game with agents that move, return, throw or never return, and the
\* threads that call_player has given up waiting for
NextMatch ==
    \/ NoPlayers
    \/ StartTurn
    \/ SkipCallback
    \/ EndCallback
    \/ Throw
    \/ Timeout
    \/ RecordTurn
    \/ GameOver
    \/ Return
    \/ Move(Teams)
    \/ WorkerValidates
    \/ WorkerApplies

\* run_game's own thread always gets to take its next step, a gateway call
\* returns, and the join in call_player gives up after per_turn_timeout_s;
\* nothing makes a callback return or throw
LiveMatch ==
    /\ InitMatch
    /\ [][NextMatch]_vars
    /\ WF_vars(NoPlayers)
    /\ SF_vars(StartTurn)
    /\ SF_vars(SkipCallback)
    /\ SF_vars(RecordTurn)
    /\ SF_vars(GameOver)
    /\ WF_vars(Return)
    /\ SF_vars(Timeout)

\* a short match in a bare room and the stocked kitchen that reaches the
\* switch window
InitVisit == InitOn(Room, StockedKitchen, VisitTurns)

\* the match of agents that switch maps, move, pick up and place
NextVisit ==
    \/ StartTurn
    \/ EndCallback
    \/ RecordTurn
    \/ GameOver
    \/ Return
    \/ SwitchMaps(Teams)
    \/ Move(Teams)
    \/ Pickup(Teams)
    \/ Place(Teams)

SpecVisit == InitVisit /\ [][NextVisit]_vars

\* a match in mid-game in the stocked kitchen: BLUE's bot holds any item or
\* nothing
InitTrash ==
    \E held \in Stackables \cup {NoItem} :
        InitMidGame(StockedKitchen, held, BoxTurns)

\* the match of an agent that trashes
NextTrash ==
    \/ StartTurn
    \/ EndCallback
    \/ RecordTurn
    \/ GameOver
    \/ Return
    \/ Trash({"BLUE"})

SpecTrash == InitTrash /\ [][NextTrash]_vars

\* the match at the box: BLUE's agent places
NextBox ==
    \/ StartTurn
    \/ EndCallback
    \/ RecordTurn
    \/ GameOver
    \/ Return
    \/ Place({"BLUE"})

SpecBox == InitBox /\ [][NextBox]_vars

\* a match in two bare rooms where any of the agents may have failed to
\* construct
InitAgents == \E f \in SUBSET Teams : InitWith(Room, Room, MaxTurn, f)

\* that match: the agents that were constructed move, and may raise
NextAgents ==
    \/ NoPlayers
    \/ StartTurn
    \/ SkipCallback
    \/ EndCallback
    \/ Throw
    \/ RecordTurn
    \/ GameOver
    \/ Return
    \/ Move(Teams)

SpecAgents == InitAgents /\ [][NextAgents]_vars

\* Game.__init__ with any numbering of the orders and any agents failing
InitSetup ==
    \E f \in SUBSET Teams, os \in LoadedOrders :
        InitLoaded(Room, Room, SetupTurns, f, os)

\* the match after any setup
SpecSetup == InitSetup /\ [][NextAgents]_vars

\* a match at the cooker (BLUE's map; RED's is a bare room)
InitCook == InitOn(Room, CookKitchen, CookTurns)

\* the match at the cooker: BLUE's agent picks up, cooks and takes from the
\* pan
NextCook ==
    \/ StartTurn
    \/ EndCallback
    \/ RecordTurn
    \/ GameOver
    \/ Return
    \/ Pickup({"BLUE"})
    \/ StartCook({"BLUE"})
    \/ TakeFromPan({"BLUE"})

SpecCook == InitCook /\ [][NextCook]_vars

(***************************************************************************)
(* The claims                                                              *)
(***************************************************************************)
\* the bot is one of team's own
Owned(team, bot_id) == bot_id \in BotIds /\ TeamOf(bot_id) = team

\* a step in which a gateway call of kind op completes
Completes(ops) == last.op = "none" /\ last'.op \in ops

\* the world after the step, as a record
WorldAfter ==
    [turn |-> turn', bots |-> bots', occupancy |-> occupancy', tiles |-> tiles',
     team_money |-> team_money', orders |-> orders', switched |-> switched',
     last_seen_turn |-> last_seen_turn', moves_left |-> moves_left',
     actions_left |-> actions_left']

\* C1: once a move call for a bot has returned true in a turn, every further
\* move call for that bot in the same turn returns false and changes nothing
\* of the world: no position, occupancy, held item, tile, money or order.
C1_OneMovePerTurn ==
    [][(Completes(MoveOps) /\ last'.bot \in moved)
         => /\ ~last'.ret
            /\ UNCHANGED <<turn, bots, occupancy, tiles, team_money, orders,
                           switched>>]_vars

\* a second move call for a bot its owner has already moved this turn came
\* back false
C1_Witness ==
    /\ last.op = "move"
    /\ last.bot \in moved
    /\ Owned(phase, last.bot)
    /\ ~last.ret
    /\ last.budget = 0

\* C2: an action call for an owned bot leaves that bot's action budget at 0
\* whatever it returns, and an action call for a bot that an action was
\* already asked of in the same turn returns false.
C2_ActionSpentOnAttempt ==
    [][(Completes(ActionOps) /\ Owned(phase, last'.bot))
         => /\ actions_left'[phase][last'.bot] = 0
            /\ last'.bot \in acted => ~last'.ret]_vars

\* a bot with empty hands beside a sink table with a clean plate asked for
\* it, and was refused because an earlier action call of the turn, itself
\* without effect, had spent the budget
C2_Witness ==
    /\ last.op = "take_clean_plate"
    /\ last.aim = "SINKTABLE"
    /\ Owned(phase, last.bot)
    /\ last.budget = 0
    /\ ~last.ret
    /\ IsNone(bots[last.bot].holding)
    /\ \E c \in Cells :
          /\ tiles[bots[last.bot].map_team][c].kind = "SINKTABLE"
          /\ tiles[bots[last.bot].map_team][c].num_clean_plates > 0
    /\ tiles["BLUE"] = StockedKitchen

\* the budgets the next call of team's gateway finds, after its lazy refresh
Budgets(s, team) ==
    <<ensure_turn(s, team).moves_left[team],
      ensure_turn(s, team).actions_left[team]>>

\* C3: a move or action call with a bot id that no bot has, or that is the
\* other team's, returns false, changes nothing of the world, and leaves
\* every bot's move and action budget at both gateways what it was.
C3_ForeignBotRejected ==
    [][(Completes(MoveOps \cup ActionOps) /\ ~Owned(phase, last'.bot))
         => /\ ~last'.ret
            /\ UNCHANGED <<turn, bots, occupancy, tiles, team_money, orders,
                           switched>>
            /\ \A team \in Teams :
                  Budgets(WorldAfter, team) = Budgets(World, team)]_vars

\* BLUE's agent called submit with RED's bot as the first call of a turn, so
\* that the call refreshed BLUE's budgets, and was refused
C3_Witness ==
    /\ last.op = "submit"
    /\ last.bot \in BotIds
    /\ ~Owned(phase, last.bot)
    /\ ~last.ret
    /\ last_seen_turn[phase] = turn
    /\ \A id \in get_team_bot_ids(World, phase) :
          moves_left[phase][id] = 1 /\ actions_left[phase][id] = 1

\* C4: an action call whose explicit target is more than one cell away from
\* the bot (Chebyshev distance above 1) returns false and changes no bot, no
\* tile, no money and no order.
C4_FarTargetRejected ==
    [][(Completes(ActionOps) /\ last'.far)
         => /\ ~last'.ret
            /\ UNCHANGED <<bots, occupancy, tiles, team_money, orders>>]_vars

\* a bot with its action budget asked to wash in the sink two cells to its
\* right, where a dirty plate waits, and was refused
C4_Witness ==
    /\ last.op = "wash_sink"
    /\ last.far
    /\ last.budget = 1
    /\ ~last.ret
    /\ bots[last.bot].map_team = "BLUE"
    /\ <<bots[last.bot].x, bots[last.bot].y>> = <<1, 1>>
    /\ tiles["BLUE"][<<3, 1>>].kind = "SINK"
    /\ tiles["BLUE"][<<3, 1>>].num_dirty_plates > 0

\* C5: a move call returns true exactly when it has changed the bot's
\* position; in particular it returns false when move_bot rejects the step.
C5_MoveTrueIffMoved ==
    [][(Completes(MoveOps) /\ last'.bot \in BotIds)
         => (last'.ret <=>
               <<bots'[last'.bot].x, bots'[last'.bot].y>>
                   # <<bots[last'.bot].x, bots[last'.bot].y>>)]_vars

\* C6: no two bots stand on the same cell of the same map, every bot stands
\* on an in-bounds walkable cell of its map_team's map, and a map's occupancy
\* index holds a bot at a cell exactly when the bot is on that map at that cell.
C6_OccupancyMirrorsBots ==
    /\ \A a, b \in BotIds :
          a # b => <<bots[a].map_team, bots[a].x, bots[a].y>>
                     # <<bots[b].map_team, bots[b].x, bots[b].y>>
    /\ \A id \in BotIds :
          /\ in_bounds(bots[id].x, bots[id].y)
          /\ IsWalkableKind(tiles[bots[id].map_team][<<bots[id].x, bots[id].y>>].kind)
    /\ \A m \in Teams, c \in Cells :
          /\ occupancy[m][c] \in BotIds \cup {NoBot}
          /\ \A id \in BotIds :
                occupancy[m][c] = id
                    <=> (bots[id].map_team = m /\ <<bots[id].x, bots[id].y>> = c)

\* both bots share a map after a switch, and one of them has just moved
C6_Witness ==
    /\ bots[0].map_team = bots[1].map_team
    /\ \E t \in Teams : switched[t]
    /\ last.op = "move"
    /\ last.ret
    /\ <<bots[last.bot].x, bots[last.bot].y>> # SpawnCell

\* the sequence q2 is the sequence q1 in some order
IsPermutation(q1, q2) ==
    /\ Len(q1) = Len(q2)
    /\ \E f \in [1 .. Len(q1) -> 1 .. Len(q1)] :
          /\ \A i, j \in 1 .. Len(q1) : f[i] = f[j] => i = j
          /\ \A i \in 1 .. Len(q1) : q2[f[i]] = q1[i]

\* order i of team is active, and the plate carries exactly the foods it asks for
Serves(plate, team, i) ==
    /\ orders[team][i].created_turn <= turn
    /\ turn < orders[team][i].expires_turn
    /\ orders[team][i].completed_turn = None
    /\ IsPermutation([k \in 1 .. Len(plate.food) |-> plate.food[k].food_name],
                     orders[team][i].required)

\* C7: a submit call for an owned bot with action budget, aimed at a Submit
\* tile in reach, returns true exactly when the bot holds a clean Plate
\* whose foods are, in some order, those of an active order of its team; and
\* when it returns true the team's money has grown by the reward of such an
\* order, and that order is no longer active.
C7_SubmitIffPlateServesOrder ==
    [][(/\ Completes({"submit"})
        /\ Owned(phase, last'.bot)
        /\ last'.budget >= 1
        /\ last'.aim = "SUBMIT")
         => LET plate == bots[last'.bot].holding
                served == IF IsPlate(plate)
                          THEN {i \in 1 .. Len(orders[phase]) : Serves(plate, phase, i)}
                          ELSE {}
            IN  /\ last'.ret <=> (IsPlate(plate) /\ ~plate.dirty /\ served # {})
                /\ last'.ret =>
                      \E i \in served :
                          /\ team_money'[phase] =
                                team_money[phase] + orders[phase][i].reward
                          /\ orders'[phase][i].completed_turn # None
                          /\ ~is_active(orders'[phase][i], turn')]_vars

\* a plate of onions then meat was accepted for the order of meat and onions,
\* and paid its reward
C7_Witness ==
    /\ last.op = "submit"
    /\ last.ret
    /\ orders["BLUE"][1].required = <<"MEAT", "ONIONS">>
    /\ orders["BLUE"][1].completed_turn = turn
    /\ team_money["BLUE"] = turn * MONEY_PER_TURN + orders["BLUE"][1].reward

\* the orders whose completed_turn the step changes
NewlyCompleted ==
    {p \in {<<t, i>> : t \in Teams, i \in 1 .. 3} :
        /\ p[2] <= Len(orders[p[1]])
        /\ orders'[p[1]][p[2]] # orders[p[1]][p[2]]}

\* C8: after a submit call that returned true the bot holds an empty dirty
\* plate and exactly one order has been marked completed; after a submit call
\* that returned false, money, orders, bots (the held plate with them) and
\* tiles are what they were.
C8_SubmitFrame ==
    [][(Completes({"submit"}) /\ Owned(phase, last'.bot))
         => /\ last'.ret =>
                  /\ bots'[last'.bot].holding = Plate(<<>>, TRUE)
                  /\ Cardinality(NewlyCompleted) = 1
                  /\ \A p \in NewlyCompleted :
                        /\ orders[p[1]][p[2]].completed_turn = None
                        /\ orders'[p[1]][p[2]] =
                              [orders[p[1]][p[2]] EXCEPT !.completed_turn = turn]
            /\ ~last'.ret =>
                  UNCHANGED <<team_money, orders, bots, occupancy, tiles>>]_vars

\* a bot with its action budget handed a clean plate that serves no order to
\* a Submit tile in reach, was refused, and still holds the plate
C8_Witness ==
    /\ last.op = "submit"
    /\ last.aim = "SUBMIT"
    /\ last.budget = 1
    /\ ~last.ret
    /\ IsPlate(bots[last.bot].holding)
    /\ ~bots[last.bot].holding.dirty
    /\ team_money["BLUE"] = turn * MONEY_PER_TURN

\* what a team pays for an item of the shop
Price(item) ==
    CASE item = "SAUCE" -> FoodType["SAUCE"].buy_cost
      [] item = "MEAT" -> FoodType["MEAT"].buy_cost
      [] item = "PLATE" -> ShopCosts["PLATE"]
      [] item = "PAN" -> ShopCosts["PAN"]
      [] OTHER -> 0

\* the item as it leaves the shop
Fresh(item) ==
    CASE item = "PLATE" -> Plate(<<>>, FALSE)
      [] item = "PAN" -> Pan(NoItem)
      [] OTHER -> Food(item, FALSE, 0)

\* C9: after a buy call that returned true the team's money is less by the
\* item's buy_cost and the bot holds a fresh item of the kind asked for;
\* after a buy call that returned false every team's money is what it was.
C9_BuyChargesOnSuccessOnly ==
    [][Completes({"buy"})
         => /\ last'.ret =>
                  /\ Owned(phase, last'.bot)
                  /\ last'.item \in ShopMenu
                  /\ team_money' =
                        [team_money EXCEPT ![phase] = @ - Price(last'.item)]
                  /\ IsNone(bots[last'.bot].holding)
                  /\ bots'[last'.bot].holding = Fresh(last'.item)
            /\ ~last'.ret => UNCHANGED team_money]_vars

\* a team with 2 bought a plate, has nothing left and its bot holds the plate
C9_Witness ==
    /\ last.op = "buy"
    /\ last.item = "PLATE"
    /\ last.ret
    /\ bots[last.bot].holding = Plate(<<>>, FALSE)
    /\ team_money[TeamOf(last.bot)] = turn * MONEY_PER_TURN - ShopCosts["PLATE"]

C11_StageFollowsTicks ==
    \A m \in Teams, c \in Cells :
        ticks_in_pan[m][c] # None =>
            /\ tiles[m][c].kind = "COOKER"
            /\ IsPan(tiles[m][c].item)
            /\ IsFood(tiles[m][c].item.food)
            /\ tiles[m][c].item.food.cooked_stage =
                   (IF ticks_in_pan[m][c] < COOK_PROGRESS THEN 0
                    ELSE IF ticks_in_pan[m][c] < BURN_PROGRESS THEN 1
                    ELSE 2)

\* food has been in its pan for BURN_PROGRESS ticks and is burnt
C11_Witness ==
    \E m \in Teams, c \in Cells :
        /\ ticks_in_pan[m][c] = BURN_PROGRESS
        /\ tiles[m][c].item.food.cooked_stage = 2

\* C12: a take_from_pan that returns true has put the food of a pan on a
\* cooker next to the bot into its hand as it was (name, chopped flag and
\* cooked stage), left that pan empty on the cooker with cook_progress 0, and
\* left every other tile alone
C12_TakeFromPanResets ==
    [][(Completes({"take_from_pan"}) /\ last'.ret)
         => \E c \in Cells :
              LET b == bots[last'.bot]
                  tile == tiles[b.map_team][c]
              IN  /\ Abs(b.x - c[1]) <= 1
                  /\ Abs(b.y - c[2]) <= 1
                  /\ tile.kind = "COOKER"
                  /\ IsPan(tile.item)
                  /\ IsFood(tile.item.food)
                  /\ IsNone(b.holding)
                  /\ bots'[last'.bot].holding = tile.item.food
                  /\ tiles'[b.map_team][c].kind = "COOKER"
                  /\ tiles'[b.map_team][c].item = Pan(NoItem)
                  /\ tiles'[b.map_team][c].cook_progress = 0
                  /\ \A m \in Teams, d \in Cells :
                        <<m, d>> # <<b.map_team, c>> => tiles'[m][d] = tiles[m][d]]_vars

\* burnt food has just been taken from its pan
C12_Witness ==
    /\ last.op = "take_from_pan"
    /\ last.ret
    /\ IsFood(bots[last.bot].holding)
    /\ bots[last.bot].holding.cooked_stage = 2

\* the cell of the kitchen's box
BoxCell == CHOOSE c \in Cells : KindAt(KitchenLayout, c) = "BOX"

\* C13: a place of a held item, with action budget, onto a box that stores
\* at least one unit returns true exactly when the held item and the stored
\* one are the same in type, food name, chopped flag and cooked stage (and
\* contents, for a plate or a pan); then the count grows by one and the hand
\* is empty, otherwise box and hand are as before
C13_BoxTakesOnlyItsKind ==
    [][(/\ Completes({"place"})
        /\ last'.aim = "BOX"
        /\ last'.budget > 0
        /\ ~IsNone(bots[last'.bot].holding)
        /\ tiles[bots[last'.bot].map_team][BoxCell].count > 0
        /\ ~IsNone(tiles[bots[last'.bot].map_team][BoxCell].item))
         => LET m == bots[last'.bot].map_team
                box == tiles[m][BoxCell]
                held == bots[last'.bot].holding
            IN  /\ last'.ret <=> (held = box.item)
                /\ last'.ret =>
                      /\ tiles'[m][BoxCell] = [box EXCEPT !.count = @ + 1]
                      /\ IsNone(bots'[last'.bot].holding)
                /\ ~last'.ret =>
                      /\ tiles'[m][BoxCell] = box
                      /\ bots'[last'.bot].holding = held]_vars

\* the box has just turned away food of the name it stores, cooked further
\* than its own
C13_Witness ==
    /\ last.op = "place"
    /\ last.aim = "BOX"
    /\ ~last.ret
    /\ last.budget > 0
    /\ IsFood(bots[last.bot].holding)
    /\ IsFood(tiles["BLUE"][BoxCell].item)
    /\ bots[last.bot].holding.food_name = tiles["BLUE"][BoxCell].item.food_name
    /\ bots[last.bot].holding.chopped = tiles["BLUE"][BoxCell].item.chopped
    /\ bots[last.bot].holding.cooked_stage > tiles["BLUE"][BoxCell].item.cooked_stage

\* C14: in every reachable state every box is a consistent counted stack:
\* its count is not negative, and is 0 exactly when its slot is empty
C14_BoxIsCountedStack ==
    \A m \in Teams, c \in Cells :
        tiles[m][c].kind = "BOX" =>
            /\ tiles[m][c].count >= 0
            /\ tiles[m][c].count = 0 <=> IsNone(tiles[m][c].item)

\* C15: in a match where no team buys or submits, each team's money is 0
\* before the first turn and turn * MONEY_PER_TURN after every tick
C15_MoneyIsTurnsTimesCredit ==
    \A t \in Teams : team_money[t] = turn * MONEY_PER_TURN

\* the last turn's tick has credited both teams
C15_Witness ==
    /\ turn = MaxTurn
    /\ phase = "RED"
    /\ \A t \in Teams : team_money[t] = MaxTurn * MONEY_PER_TURN

C17_RicherTeamReturned ==
    (phase = "over" /\ failed = {}) =>
        \A t \in Teams :
            team_money[t] > team_money[Enemy(t)] => result = t

\* C18: when the turn limit is reached without a forfeit and the teams'
\* money is equal, run_game returns no winner and the replay records no
\* winner
C18_DrawOnEqualMoney ==
    (/\ phase = "over"
     /\ failed = {}
     /\ team_money["RED"] = team_money["BLUE"])
        => /\ result = NoWinner
           /\ replay_winner = NoWinner

\* the match has ended at the turn limit with equal money
C18_Witness ==
    /\ phase = "over"
    /\ failed = {}
    /\ turn = turn_limit
    /\ team_money["RED"] = team_money["BLUE"]
    /\ replay_winner = NoWinner

\* the steps run_game takes from one stage of a turn to the next
ScheduleOrder ==
    {<<"tick", "BLUE">>, <<"BLUE", "RED">>, <<"RED", "record">>,
     <<"record", "tick">>, <<"record", "over">>, <<"tick", "over">>}

\* C19: run_game goes through each turn in the order tick, BLUE's callback,
\* RED's callback, snapshot: the turn counter advances by one exactly where
\* the tick hands over to BLUE's callback, one snapshot is taken exactly
\* where RED's callback is over, no gateway call is made between a snapshot
\* and the next tick, and once RED's callback has begun nothing changes
\* BLUE's bots any more in that turn
C19_TickBlueRedSnapshot ==
    [][/\ phase' # phase => <<phase, phase'>> \in ScheduleOrder
       /\ turn' # turn <=> (phase = "tick" /\ phase' = "BLUE")
       /\ turn' # turn => turn' = turn + 1
       /\ replay' # replay <=> (phase = "record" /\ phase' # "record")
       /\ replay' # replay => (replay' = replay + 1 /\ replay' = turn)
       /\ phase = "tick" => last'.op = "none"
       /\ (phase = "RED" /\ phase' = "RED") =>
             \A id \in BotIds : TeamOf(id) = "BLUE" => bots'[id] = bots[id]]_vars

\* C20: only the callback run_game is waiting for makes gateway calls: a
\* call completes only during a callback, and a call that returns true for
\* a bot is made in the callback of that bot's team
C20_OneCallbackAtATime ==
    [][Completes(MoveOps \cup ActionOps \cup {"switch_maps"})
         => /\ phase \in Teams
            /\ (last'.ret /\ last'.bot \in BotIds) => TeamOf(last'.bot) = phase]_vars

\* C21: a forfeit is final: once a callback of a turn has failed, no tick
\* follows, the failed team's callback is not started again, and after the
\* snapshot of that turn the match is over for good: no snapshot, no
\* callback, no tick
C21_ForfeitIsFinal ==
    [][failed # {} =>
          /\ turn' = turn
          /\ failed \subseteq failed'
          /\ \A t \in failed : phase' = t => phase = t
          /\ phase = "record" => phase' \in {"record", "over"}
          /\ phase = "over" => (phase' = "over" /\ replay' = replay)]_vars

\* the match is over after a forfeit with turns left to play
C21_Witness ==
    /\ phase = "over"
    /\ failed # {}
    /\ turn < turn_limit
    /\ replay = turn

Units(it, k) ==
    IF IsFood(it) THEN (IF it.cooked_stage = k THEN 1 ELSE 0)
    ELSE IF IsPan(it)
    THEN (IF IsFood(it.food) /\ it.food.cooked_stage = k THEN 1 ELSE 0)
    ELSE IF IsPlate(it)
    THEN Cardinality({i \in 1 .. Len(it.food) : it.food[i].cooked_stage = k})
    ELSE 0

\* the sum of f over the set S
RECURSIVE SumOver(_, _)
SumOver(f, S) ==
    IF S = {} THEN 0
    ELSE LET x == CHOOSE x \in S : TRUE IN f[x] + SumOver(f, S \ {x})

\* the number of Foods of cooked stage k in the world, a box counting as
\* count units of what it stores
StageCount(bs, ts, k) ==
    SumOver([id \in BotIds |-> Units(bs[id].holding, k)], BotIds) +
    SumOver([mc \in Teams \X Cells |->
                LET tile == ts[mc[1]][mc[2]] IN
                IF tile.kind = "BOX" THEN tile.count * Units(tile.item, k)
                ELSE IF HasItemSlot(tile) THEN Units(tile.item, k)
                ELSE 0],
            Teams \X Cells)

\* the tile is a cooker with food in its pan
Cooking(tile) == tile.kind = "COOKER" /\ IsPan(tile.item) /\ IsFood(tile.item.food)

OrderSlots == {p \in Teams \X (1 .. 3) : p[2] <= Len(orders[p[1]])}

\* C24: no two orders of the match, of either team, have the same id, and
\* the counter later orders take their id from is above the id of every order
\* in the red and in the blue list
C24_OrderIdsNeverCollide ==
    /\ \A p, q \in OrderSlots :
          orders[p[1]][p[2]].order_id = orders[q[1]][q[2]].order_id => p = q
    /\ \A p \in OrderSlots : orders[p[1]][p[2]].order_id < next_order_id

\* the value of the store an observation shows
Shown(op, v) ==
    IF op = "get_tile" THEN \E m \in Teams, c \in Cells : tiles[m][c] = v
    ELSE IF op = "get_map" THEN \E m \in Teams : tiles[m] = v
    ELSE IF op = "get_orders" THEN \E m \in Teams : get_orders(World, m).value = v
    ELSE \E id \in BotIds : get_bot_state(World, id).value = v

\* C25: a write by the agent to a value that get_map, get_tile, get_orders
\* or get_bot_state handed it changes nothing of the world or of the
\* budgets, so every later call finds the world it would have found
C25_ObservationsAreCopies ==
    [][last'.op = "mutate" => WorldAfter = World]_vars

\* the agent has written to a tile it was handed, and the tile of the store
\* is not what the agent now holds
C25_Witness ==
    /\ last.op = "mutate"
    /\ last.item = "get_tile"
    /\ last.ret.value = [kind |-> "COUNTER", item |-> NoItem]
    /\ ~Shown("get_tile", last.ret.value)
    /\ bots[1].holding # NoItem

\* C26: a move call for a bot of the caller's team leaves the bot without
\* move budget, whatever it returns; when it is rejected the bot stays where
\* it was, and when it is rejected for its step or its destination (the bot
\* had its move) every further move of the bot in that turn, legal steps
\* included, returns false and moves no bot
C26_MoveSpentOnAttempt ==
    [][(Completes(MoveOps) /\ Owned(phase, last'.bot)) =>
          /\ moves_left'[phase][last'.bot] = 0
          /\ ~last'.ret => (bots' = bots /\ occupancy' = occupancy)
          /\ last'.budget = 0 => ~last'.ret
          /\ (~last'.ret /\ last'.budget = 1) =>
                \A d \in Offsets :
                    LET again == move(WorldAfter, phase, last'.bot, d[1], d[2]) IN
                    /\ ~again.ret
                    /\ again.s.bots = bots'
                    /\ again.s.occupancy = occupancy']_vars

\* a move was turned down for lack of budget although the bot has not moved
\* in this turn and has a cell next to it that it could step on
C26_Witness ==
    /\ last.op = "move"
    /\ ~last.ret
    /\ last.budget = 0
    /\ Owned(phase, last.bot)
    /\ last.bot \notin moved
    /\ \E d \in Offsets :
          /\ Max(Abs(d[1]), Abs(d[2])) = 1
          /\ can_move_internal(World, bots[last.bot].map_team, bots[last.bot].x,
                               bots[last.bot].y, d[1], d[2])

\* the moves, or actions, the next call for the bot finds on the gateway of
\* the team in world s
MovesFor(s, team, id) == DictGet(ensure_turn(s, team).moves_left[team], id)
ActionsFor(s, team, id) == DictGet(ensure_turn(s, team).actions_left[team], id)

\* C27: no budget counter leaves 0 .. 1; after every tick, the first
\* included, every bot has one move and one action on its team's gateway;
\* within a turn a bot's moves go down only by a move call of its team for
\* it, its actions only by an action call, so that the first move call and
\* the first action call for a bot in a turn find their budget
C27_OneMoveOneActionPerTurn ==
    [][/\ \A t \in Teams, id \in BotIds :
             moves_left'[t][id] \in 0 .. 1 /\ actions_left'[t][id] \in 0 .. 1
       /\ turn' # turn =>
             \A id \in BotIds :
                 /\ MovesFor(WorldAfter, bots'[id].team, id) = 1
                 /\ ActionsFor(WorldAfter, bots'[id].team, id) = 1
       /\ turn' = turn =>
             \A id \in BotIds :
                 LET t == bots[id].team IN
                 /\ MovesFor(WorldAfter, t, id) < MovesFor(World, t, id) =>
                       (last'.op \in MoveOps /\ last'.bot = id /\ phase = t)
                 /\ ActionsFor(WorldAfter, t, id) < ActionsFor(World, t, id) =>
                       (last'.op \in ActionOps /\ last'.bot = id /\ phase = t)
       /\ (Completes(ActionOps) /\ Owned(phase, last'.bot) /\ last'.bot \notin acted) =>
             last'.budget = 1]_vars

\* in the first turn, on gateways built before the bots were spawned, RED's
\* bot has moved and its first action call was not turned down for budget
C27_Witness ==
    /\ turn = 1
    /\ phase = "RED"
    /\ 0 \in moved
    /\ last.op \in ActionOps
    /\ last.bot = 0
    /\ last.budget = 1
    /\ actions_left["RED"][0] = 0

\* C28: a call of a gateway action that returns false leaves bots, held
\* items, tiles with their slots and counters, money and orders as they
\* were (budgets may change)
C28_FailedCallChangesNothing ==
    [][(Completes(ActionOps) /\ ~last'.ret) =>
          /\ bots' = bots
          /\ occupancy' = occupancy
          /\ tiles' = tiles
          /\ team_money' = team_money
          /\ orders' = orders
          /\ switched' = switched
          /\ turn' = turn]_vars

\* the number of Foods in an item, and in a tile, a box counting as count
\* units of what it stores
ItemUnits(it) == Units(it, 0) + Units(it, 1) + Units(it, 2)
TileUnits(tile) ==
    IF tile.kind = "BOX" THEN tile.count * ItemUnits(tile.item)
    ELSE IF HasItemSlot(tile) THEN ItemUnits(tile.item)
    ELSE 0
FoodUnits(bs, ts) ==
    StageCount(bs, ts, 0) + StageCount(bs, ts, 1) + StageCount(bs, ts, 2)

\* C29: a successful add_food_to_plate moves one Food: the plate, in the
\* hand or on the target tile, has that food added at the end of its list,
\* the hand or the tile it came from has one Food less, no other tile
\* changes and the world holds as many Foods as before
C29_PlatingMovesOneFood ==
    [][(Completes({"add_food_to_plate"}) /\ last'.ret) =>
          LET id == last'.bot
              b == bots[id]
          IN  /\ FoodUnits(bots', tiles') = FoodUnits(bots, tiles)
              /\ \E c \in Cells :
                    LET tile == tiles[b.map_team][c]
                        after == tiles'[b.map_team][c]
                    IN  /\ HasItemSlot(tile)
                        /\ \A m \in Teams, c2 \in Cells :
                              <<m, c2>> # <<b.map_team, c>> => tiles'[m][c2] = tiles[m][c2]
                        /\ \/ /\ IsPlate(b.holding)
                              /\ IsFood(tile.item)
                              /\ bots'[id].holding =
                                    [b.holding EXCEPT !.food = Append(@, tile.item)]
                              /\ TileUnits(after) = TileUnits(tile) - 1
                           \/ /\ IsFood(b.holding)
                              /\ IsPlate(tile.item)
                              /\ bots'[id].holding = NoItem
                              /\ after.item =
                                    [tile.item EXCEPT !.food = Append(@, b.holding)]
                              /\ TileUnits(after) = TileUnits(tile) + 1]_vars

\* C30: a successful place that changes a cooker leaves it with
\* cook_progress 0, COOK_PROGRESS or BURN_PROGRESS when its pan now holds a
\* food of cooked stage 0, 1 or 2, from where a tick does not bring the
\* stage below the food's, and with cook_progress 0 when its pan is empty
C30_ProgressFollowsStageOnEntry ==
    [][(Completes({"place"}) /\ last'.ret) =>
          \A m \in Teams, c \in Cells :
              LET tile == tiles[m][c]
                  after == tiles'[m][c]
              IN  (tile.kind = "COOKER" /\ after # tile) =>
                    /\ IsPan(after.item)
                    /\ IF IsFood(after.item.food)
                       THEN /\ after.cook_progress =
                                 (IF after.item.food.cooked_stage = 0 THEN 0
                                  ELSE IF after.item.food.cooked_stage = 1
                                  THEN COOK_PROGRESS
                                  ELSE BURN_PROGRESS)
                            /\ StageOf(after.cook_progress + 1) >=
                                 after.item.food.cooked_stage
                       ELSE after.cook_progress = 0]_vars

\* in the first turn played the bot has put burnt food on the cooker, which
\* stands at BURN_PROGRESS
C30_Witness ==
    /\ turn = MidGame + 1
    /\ last.op = "place"
    /\ last.ret
    /\ \E c \in Cells :
          /\ Cooking(tiles["BLUE"][c])
          /\ tiles["BLUE"][c].item.food.cooked_stage = 2
          /\ tiles["BLUE"][c].cook_progress = BURN_PROGRESS
    /\ \A c \in Cells :
          (HasItemSlot(tiles["BLUE"][c]) /\ tiles["BLUE"][c].kind # "COOKER") =>
              tiles["BLUE"][c].item = NoItem

\* C31: a chop that returns true was called for a bot of the caller's team
\* that holds nothing, and turns one Food on a counter of the bot's map,
\* choppable and not chopped before, into the same food chopped; nothing
\* else of the world changes
C31_ChopOnlyUnchopped ==
    [][(Completes({"chop"}) /\ last'.ret) =>
          /\ Owned(phase, last'.bot)
          /\ IsNone(bots[last'.bot].holding)
          /\ UNCHANGED <<bots, occupancy, team_money, orders, switched, turn>>
          /\ \E c \in Cells :
                LET m == bots[last'.bot].map_team
                    tile == tiles[m][c]
                IN  /\ tile.kind = "COUNTER"
                    /\ IsFood(tile.item)
                    /\ FoodType[tile.item.food_name].can_chop
                    /\ ~tile.item.chopped
                    /\ tiles' = [tiles EXCEPT ![m][c].item.chopped = TRUE]]_vars

\* what trash leaves in the hand
Emptied(it) ==
    IF IsPlate(it) THEN Plate(<<>>, FALSE)
    ELSE IF IsPan(it) THEN Pan(NoItem)
    ELSE NoItem

\* C32: a trash call returns true exactly when it is made with action
\* budget for a bot of the caller's team that holds something and aims at a
\* Trash tile; then the bot holds an empty clean plate for a plate, an
\* empty pan for a pan and nothing for a food, and tiles, the other bot,
\* money and orders are as before
C32_TrashEmptiesTheHand ==
    [][Completes({"trash"}) =>
          /\ last'.ret <=> /\ Owned(phase, last'.bot)
                           /\ last'.budget = 1
                           /\ ~IsNone(bots[last'.bot].holding)
                           /\ last'.aim = "TRASH"
          /\ last'.ret =>
                /\ bots' = [bots EXCEPT ![last'.bot].holding = Emptied(@)]
                /\ UNCHANGED <<tiles, occupancy, team_money, orders, switched, turn>>]_vars

\* a trash has succeeded and left the hand empty: the bot held a food (a
\* plate or a pan would still be in its hand)
C32_Witness ==
    /\ last.op = "trash"
    /\ last.ret
    /\ last.aim = "TRASH"
    /\ turn = MidGame + 1
    /\ IsNone(bots[last.bot].holding)

\* the number of pans in the hands and on the tiles
Pans(bs, ts) ==
    Cardinality({id \in BotIds : IsPan(bs[id].holding)}) +
    Cardinality({mc \in Teams \X Cells :
                    HasItemSlot(ts[mc[1]][mc[2]]) /\ IsPan(ts[mc[1]][mc[2]].item)})

\* C33: a place with action budget by a bot that holds a pan and aims at a
\* cooker is refused exactly when the cooker's pan holds food, and then
\* changes no tile and no hand; otherwise the held pan is the cooker's item
\* and the bot holds what the cooker had (its pan, or nothing); the world
\* has as many pans and Foods as before
C33_PansSwapOnCooker ==
    [][(/\ Completes({"place"})
        /\ Owned(phase, last'.bot)
        /\ last'.budget = 1
        /\ IsPan(bots[last'.bot].holding)
        /\ last'.aim = "COOKER") =>
          \E c \in Cells :
              LET id == last'.bot
                  m == bots[id].map_team
                  tile == tiles[m][c]
              IN  /\ tile.kind = "COOKER"
                  /\ \A m2 \in Teams, c2 \in Cells :
                        <<m2, c2>> # <<m, c>> => tiles'[m2][c2] = tiles[m2][c2]
                  /\ IF IsPan(tile.item) /\ IsFood(tile.item.food)
                     THEN ~last'.ret /\ tiles' = tiles /\ bots' = bots
                     ELSE /\ last'.ret
                          /\ tiles'[m][c].item = bots[id].holding
                          /\ bots' = [bots EXCEPT ![id].holding = tile.item]
                          /\ Pans(bots', tiles') = Pans(bots, tiles)
                          /\ FoodUnits(bots', tiles') = FoodUnits(bots, tiles)]_vars

\* a pan with food was put on the cooker and the bot holds the empty pan
\* that stood there
C33_Witness ==
    /\ last.op = "place"
    /\ last.ret
    /\ last.aim = "COOKER"
    /\ bots[last.bot].holding = Pan(NoItem)
    /\ \E c \in Cells : Cooking(tiles["BLUE"][c])

\* C34: where a bot of the caller's team holds a Food and the call aims at
\* a cooker, start_cook and place do the same: whichever of the two is
\* called, the other, called in its place for the same bot and target,
\* returns the same boolean and gives the same world and budgets
C34_StartCookIsPlaceOfFood ==
    [][(/\ Completes({"start_cook", "place"})
        /\ Owned(phase, last'.bot)
        /\ IsFood(bots[last'.bot].holding)
        /\ last'.aim = "COOKER") =>
          \A t \in Targets(phase, last'.bot) :
              Aim(phase, last'.bot, t) = "COOKER" =>
                  LET other == IF last'.op = "place"
                               THEN start_cook(World, phase, last'.bot, t[1], t[2])
                               ELSE place(World, phase, last'.bot, t[1], t[2])
                  IN  /\ other.ret = last'.ret
                      /\ other.s = WorldAfter]_vars

\* a start_cook has put cooked food into the pan on the cooker, which
\* stands at COOK_PROGRESS
C34_Witness ==
    /\ last.op = "start_cook"
    /\ last.ret
    /\ \E c \in Cells :
          /\ Cooking(tiles["BLUE"][c])
          /\ tiles["BLUE"][c].item.food.cooked_stage = 1
          /\ tiles["BLUE"][c].cook_progress = COOK_PROGRESS

\* C35: where a bot has its move, can_move tells what move returns, and
\* move then puts the bot on the cell asked for; where it has its action,
\* can_buy tells what buy returns and can_start_cook what start_cook
\* returns, for every bot id, step, item and target
C35_PredicatesAgree ==
    \A team \in Teams, id \in BotIds :
        /\ MovesFor(World, team, id) = 1 =>
              \A d \in Offsets :
                  LET r == move(World, team, id, d[1], d[2]) IN
                  /\ can_move(World, team, id, d[1], d[2]) = r.ret
                  /\ r.ret => /\ r.s.bots[id].x = bots[id].x + d[1]
                              /\ r.s.bots[id].y = bots[id].y + d[2]
        /\ ActionsFor(World, team, id) = 1 =>
              \A t \in Targets(team, id) :
                  /\ \A item \in Buyables \cup ShopMenu :
                        can_buy(World, team, id, item, t[1], t[2]) =
                            buy(World, team, id, item, t[1], t[2]).ret
                  /\ can_start_cook(World, team, id, t[1], t[2]) =
                        start_cook(World, team, id, t[1], t[2]).ret

\* BLUE's team, which could not buy a plate in the first turn, has bought
\* one in the second with all its money
C35_Witness ==
    /\ last.op = "buy"
    /\ last.ret
    /\ last.item = "PLATE"
    /\ team_money["BLUE"] = 0
    /\ turn = 2

\* C36: a move or action call for a bot of the caller's team changes only
\* tiles of the map the bot is on, at most one step away from the bot; a
\* pickup that returns true has changed such a tile; a move that returns
\* true puts the bot on a walkable cell of that map and leaves the other
\* map's occupancy alone
C36_ActsOnTheMapItIsOn ==
    [][(Completes(MoveOps \cup ActionOps) /\ Owned(phase, last'.bot)) =>
          LET id == last'.bot
              m == bots[id].map_team
              Near == {c \in Cells : chebyshev_dist(bots[id].x, bots[id].y, c[1], c[2]) <= 1}
          IN  /\ \A m2 \in Teams, c \in Cells :
                    tiles'[m2][c] # tiles[m2][c] => (m2 = m /\ c \in Near)
              /\ (last'.op = "pickup" /\ last'.ret) =>
                    \E c \in Near : /\ tiles'[m][c] # tiles[m][c]
                                     /\ bots'[id].holding = tiles[m][c].item
              /\ (last'.op = "move" /\ last'.ret) =>
                    /\ bots'[id].map_team = m
                    /\ is_walkable(World, m, bots'[id].x, bots'[id].y)
                    /\ occupancy'[m][<<bots'[id].x, bots'[id].y>>] = id
                    /\ occupancy'[Enemy(m)] = occupancy[Enemy(m)]]_vars

\* RED's bot, switched into BLUE's kitchen, has picked an item up there
C36_Witness ==
    /\ switched["RED"]
    /\ bots[0].map_team = "BLUE"
    /\ last.op = "pickup"
    /\ last.bot = 0
    /\ last.ret
    /\ ~IsNone(bots[0].holding)

\* C37: a team's money changes in three ways only: by +MONEY_PER_TURN at the
\* tick, by minus the item's cost at a buy of that team that returns true, by
\* plus the reward of the order served at a submit of that team that returns
\* true; every other step (a move, another action, a call that returns
\* false, a map switch, an order running out, the scheduler's steps) leaves
\* it alone, and it is never negative
C37_MoneyLedger ==
    [][\A t \in Teams :
          LET delta == team_money'[t] - team_money[t]
              served == {i \in 1 .. Len(orders[t]) :
                            /\ orders[t][i].completed_turn = None
                            /\ orders'[t][i].completed_turn # None}
          IN  /\ team_money'[t] >= 0
              /\ IF turn' # turn
                  THEN delta = MONEY_PER_TURN
                  ELSE IF Completes({"buy"}) /\ last'.ret /\ phase = t
                  THEN /\ Owned(t, last'.bot)
                       /\ delta = 0 - buyable_cost(last'.item)
                  ELSE IF Completes({"submit"}) /\ last'.ret /\ phase = t
                  THEN /\ Owned(t, last'.bot)
                       /\ \E i \in served : /\ served = {i}
                                             /\ delta = orders[t][i].reward
                  ELSE delta = 0]_vars

\* BLUE has just been paid for an order, after another order of BLUE's has
\* run out unserved
C37_Witness ==
    /\ last.op = "submit"
    /\ last.ret
    /\ team_money["BLUE"] > turn * MONEY_PER_TURN
    /\ \E i \in 1 .. Len(orders["BLUE"]) :
          /\ orders["BLUE"][i].completed_turn = None
          /\ orders["BLUE"][i].expires_turn <= turn

\* C38: a call through one team's gateway, whatever bot id it names, leaves
\* the other team's bots where they are, with what they hold, on the map
\* they are on and in the occupancy index, and leaves the other team's move
\* and action budgets, money and switched flag as they were
C38_OtherTeamUntouched ==
    [][(last.op = "none" /\ last'.op # "none" /\ phase \in Teams) =>
          LET e == Enemy(phase) IN
          /\ \A id \in BotIds : TeamOf(id) = e =>
                /\ bots'[id] = bots[id]
                /\ occupancy'[bots[id].map_team][<<bots[id].x, bots[id].y>>] = id
                /\ moves_left'[phase][id] = moves_left[phase][id]
                /\ actions_left'[phase][id] = actions_left[phase][id]
          /\ moves_left'[e] = moves_left[e]
          /\ actions_left'[e] = actions_left[e]
          /\ team_money'[e] = team_money[e]
          /\ switched'[e] = switched[e]]_vars

\* both teams have switched maps; RED's agent, called after BLUE's, has
\* picked an item up in BLUE's kitchen while BLUE's bot stands in RED's room
\* with an item of its own
C38_Witness ==
    /\ phase = "RED"
    /\ switched["RED"]
    /\ switched["BLUE"]
    /\ bots[0].map_team = "BLUE"
    /\ bots[1].map_team = "RED"
    /\ ~IsNone(bots[1].holding)
    /\ last.op = "pickup"
    /\ last.bot = 0
    /\ last.ret

C40_RunGameTerminates ==
    /\ [](turn <= turn_limit /\ replay <= turn)
    /\ <>(phase = "over")

\* run_game has returned from its third turn, in which it gave up waiting for
\* RED's callback
C40_Witness ==
    /\ phase = "over"
    /\ turn = MatchTurns
    /\ replay = MatchTurns
    /\ abandoned = {"RED"}
    /\ result = "BLUE"

====
